---- MODULE Spec2Model ----
(***************************************************************************)
(* A model of the formula engine, the financial data loader, the           *)
(* investment vehicle flagger, the ratio calculation and the scoring of    *)
(* rik_screener.                                                           *)
(*                                                                         *)
(* Text (formulas, column names, labels) is a sequence of tokens: a token  *)
(* is one character (a quote, an operator, a digit) or one word that the   *)
(* code never looks inside (the base name of a financial item, a function  *)
(* name).  Every pattern the code searches for falls on token boundaries.  *)
(***************************************************************************)
EXTENDS Integers, Sequences, FiniteSets, TLC

VARIABLES
    pc,             \* the position of the running function
    data,           \* the table (DataFrame) the running function works on
    result,         \* what the running function returned or raised
    idx,            \* the position of the running loop
    formula,        \* extract_quoted_columns, create_formula: the formula argument
    columns,        \* the list extract_quoted_columns returned
    namespace,      \* create_formula: the bound columns
    formula_expr,   \* create_formula: the text handed to eval
    call,           \* calculate_ratios: the arguments of the call
    years,          \* calculate_ratios, flag_investment_vehicles: years
    formulas,       \* the formula dictionary of the running function
    valid_formulas, \* validate_formulas: valid_formulas
    errors,         \* validate_formulas: errors
    financial_data, \* load_financial_data: the rows of the year's financial file
    financial_items,\* load_financial_data: the requested line items
    thresholds,     \* _calculate_metric_scores: the sorted thresholds
    scores,         \* _calculate_metric_scores: scores
    files,          \* run_company_screening: the files under base_path
    current_file,   \* _run_csv_pipeline: current_file
    stage_log       \* run_company_screening: the stage calls made so far

cfVars == <<formula, columns, namespace, formula_expr>>
crVars == <<call, years, formulas>>
vfVars == <<valid_formulas, errors>>
ldVars == <<financial_data, financial_items>>
scVars == <<thresholds, scores>>
plVars == <<files, current_file, stage_log>>

vars == <<pc, data, result, idx, cfVars, crVars, vfVars, ldVars, scVars, plVars>>

\* the value of a variable the running function does not have
Unused == <<>>

\* an optional argument: left out (or None), or given
Absent == [given |-> FALSE]
Given(v) == [given |-> TRUE, v |-> v]

CfUnused == formula = Unused /\ columns = Unused /\ namespace = Unused /\ formula_expr = Unused
CrUnused == call = Unused /\ years = Unused /\ formulas = Unused
VfUnused == valid_formulas = Unused /\ errors = Unused
LdUnused == financial_data = Unused /\ financial_items = Unused
ScUnused == thresholds = Unused /\ scores = Unused
PlUnused == files = Unused /\ current_file = Unused /\ stage_log = Unused

(***************************************************************************)
(* Text                                                                    *)
(***************************************************************************)
DQ == "\""
SQ == "'"

\* Python's None, for an argument that is otherwise text
None == <<"<None>">>

RECURSIVE Concat(_)
Concat(ss) == IF ss = <<>> THEN <<>> ELSE Head(ss) \o Concat(Tail(ss))

\* s[i..] starts with sub
StartsAt(s, i, sub) ==
    /\ i + Len(sub) - 1 <= Len(s)
    /\ \A k \in 1..Len(sub) : s[i + k - 1] = sub[k]

\* Python's `sub in s`
Contains(s, sub) == \E i \in 1..(Len(s) + 1) : StartsAt(s, i, sub)

\* the least index j > i with s[j] = q, or 0
NextQuote(s, i, q) ==
    LET js == {j \in (i + 1)..Len(s) : s[j] = q}
    IN  IF js = {} THEN 0 ELSE CHOOSE j \in js : \A k \in js : j <= k

(***************************************************************************)
(* extract_quoted_columns: re.findall(r'"([^"]+)"|\'([^\']+)\'', formula)  *)
(***************************************************************************)
\* the closing quote of a match of the pattern that starts at i, or 0:
\* an opening quote, one or more characters other than that quote, the quote
MatchEnd(s, i) ==
    IF s[i] \in {DQ, SQ}
    THEN LET j == NextQuote(s, i, s[i])
         IN  IF j > i + 1 THEN j ELSE 0
    ELSE 0

\* findall: leftmost match first, the scan resumes after the match
RECURSIVE FindAll(_, _)
FindAll(s, i) ==
    IF i > Len(s) THEN <<>>
    ELSE LET j == MatchEnd(s, i)
         IN  IF j = 0 THEN FindAll(s, i + 1)
             ELSE <<SubSeq(s, i + 1, j - 1)>> \o FindAll(s, j + 1)

\* the first occurrence of every entry, in order
Dedup(seq) ==
    LET keep == {k \in 1..Len(seq) : \A j \in 1..(k - 1) : seq[j] # seq[k]}
    IN  [i \in 1..Cardinality(keep) |->
            seq[CHOOSE k \in keep : Cardinality({j \in keep : j <= k}) = i]]

\* a mutant: each referenced name once
extract_quoted_columns_unique(f) ==
    IF f = None \/ f = <<>> THEN <<>> ELSE Dedup(FindAll(f, 1))

extract_quoted_columns(f) ==
    IF f = None \/ f = <<>> THEN <<>> ELSE FindAll(f, 1)

(***************************************************************************)
(* Numbers.  A float is modelled by an exact fraction n/d in lowest terms  *)
(* (d > 0), or by one of IEEE's nan, +inf, -inf (k = "inf", n = +1 or -1). *)
(***************************************************************************)
RECURSIVE GCD(_, _)
GCD(a, b) == IF b = 0 THEN a ELSE GCD(b, a % b)

AbsInt(a) == IF a < 0 THEN -a ELSE a
Sign(a) == IF a < 0 THEN -1 ELSE IF a = 0 THEN 0 ELSE 1

\* the fraction n/d, d # 0, in lowest terms
Frac(n, d) ==
    LET g == GCD(AbsInt(n), AbsInt(d))
    IN  [k |-> "fin", n |-> (Sign(d) * n) \div g, d |-> AbsInt(d) \div g]

Int2Num(i) == [k |-> "fin", n |-> i, d |-> 1]
NaN == [k |-> "nan", n |-> 0, d |-> 1]
Inf(sgn) == [k |-> "inf", n |-> sgn, d |-> 1]

IsNaN(x) == x.k = "nan"
IsFin(x) == x.k = "fin"

Neg(x) == IF x.k = "nan" THEN x ELSE [x EXCEPT !.n = -x.n]
NumAbs(x) == IF x.k = "nan" THEN x ELSE [x EXCEPT !.n = AbsInt(x.n)]

NumAdd(x, y) ==
    IF IsNaN(x) \/ IsNaN(y) THEN NaN
    ELSE IF x.k = "inf" /\ y.k = "inf" THEN (IF x.n = y.n THEN x ELSE NaN)
    ELSE IF x.k = "inf" THEN x
    ELSE IF y.k = "inf" THEN y
    ELSE Frac(x.n * y.d + y.n * x.d, x.d * y.d)

NumSub(x, y) == NumAdd(x, Neg(y))

NumMul(x, y) ==
    IF IsNaN(x) \/ IsNaN(y) THEN NaN
    ELSE IF x.k = "inf" \/ y.k = "inf"
         THEN (IF x.n = 0 \/ y.n = 0 THEN NaN ELSE Inf(Sign(x.n) * Sign(y.n)))
    ELSE Frac(x.n * y.n, x.d * y.d)

\* numpy's true division of float64 values: x/0 is +-inf, 0/0 is nan, no error
NumDiv(x, y) ==
    IF IsNaN(x) \/ IsNaN(y) THEN NaN
    ELSE IF y.k = "inf" THEN (IF x.k = "inf" THEN NaN ELSE Int2Num(0))
    ELSE IF x.k = "inf" THEN Inf(IF y.n < 0 THEN -x.n ELSE x.n)
    ELSE IF y.n = 0 THEN (IF x.n = 0 THEN NaN ELSE Inf(Sign(x.n)))
    ELSE Frac(x.n * y.d, x.d * y.n)

\* x < y and x <= y of floats: every comparison with nan is False
NumLt(x, y) ==
    /\ ~IsNaN(x) /\ ~IsNaN(y)
    /\ IF x.k = "inf" THEN x.n < 0 /\ ~(y.k = "inf" /\ y.n < 0)
       ELSE IF y.k = "inf" THEN y.n > 0
       ELSE x.n * y.d < y.n * x.d
NumEq(x, y) == ~IsNaN(x) /\ ~IsNaN(y) /\ x = y
NumLe(x, y) == NumLt(x, y) \/ NumEq(x, y)

(***************************************************************************)
(* Cells of a table.  A cell is a number, a text that parses as a number,  *)
(* a text that does not, or missing (None / NaN).                          *)
(***************************************************************************)
NumCell(x) == [c |-> "num", x |-> x]
StrCell(x) == [c |-> "str", x |-> x]      \* the text of the number x, e.g. "10"
BadCell == [c |-> "bad", x |-> NaN]       \* a text such as "bad"
NoneCell == [c |-> "none", x |-> NaN]     \* None / NaN / an empty CSV field

\* pd.to_numeric(column, errors='coerce') on one cell
to_numeric(cell) == IF cell.c \in {"num", "str"} THEN cell.x ELSE NaN

\* np.nan_to_num(values, nan=1.0) on one value (the inputs hold no infinity)
nan_to_num_zero(x) == IF IsNaN(x) THEN Int2Num(0) ELSE x

nan_to_num(x) == IF IsNaN(x) THEN Int2Num(1) ELSE x

\* a table (DataFrame): its number of rows and, for every column name, the
\* column's cells
Table(n, cols) == [nrows |-> n, cols |-> cols]
RowCount(table) == table.nrows
Columns(table) == DOMAIN table.cols

\* data.head(n)
Head_n(table, n) ==
    LET m == IF table.nrows < n THEN table.nrows ELSE n
    IN  Table(m, [c \in DOMAIN table.cols |-> SubSeq(table.cols[c], 1, m)])

\* table[name] = column (a sequence of cells) or a scalar cell for every row
MergeFn(f, g) == [x \in DOMAIN f \cup DOMAIN g |-> IF x \in DOMAIN g THEN g[x] ELSE f[x]]
SetColumn(table, name, column) ==
    Table(table.nrows, MergeFn(table.cols, [c \in {name} |-> column]))
Broadcast(n, cell) == [i \in 1..n |-> cell]

(***************************************************************************)
(* eval(formula_expr) inside create_formula.  The expression is Python     *)
(* source; this evaluator covers the expressions over                      *)
(*   integers, + - * /, unary + and -, parentheses, text literals,         *)
(*   namespace[...], and calls of one-argument functions,                  *)
(* with Python's precedence.  eval sees create_formula's local variable    *)
(* `namespace` and Python's builtins (abs, round, ...), and not the        *)
(* functions stored in namespace: sqrt, log, log10, exp are unbound names. *)
(* A value is a vector (numpy array), a Python number, a text, a function, *)
(* None, or an error.                                                      *)
(***************************************************************************)
Vec(v) == [t |-> "vec", v |-> v]
Scalar(x) == [t |-> "num", v |-> <<x>>]
Str(x) == [t |-> "str", v |-> x]
Fn(name) == [t |-> "fn", v |-> <<name>>]
NoneValue == [t |-> "none", v |-> <<>>]
Err(kind) == [t |-> "err", v |-> <<kind>>]

Digits == <<"0", "1", "2", "3", "4", "5", "6", "7", "8", "9">>
IsDigit(tok) == \E k \in 1..10 : Digits[k] = tok
DigitVal(tok) == (CHOOSE k \in 1..10 : Digits[k] = tok) - 1

\* the names create_formula stores in namespace next to the columns
NamespaceFunctions == {"abs", "min", "max", "sqrt", "log", "log10", "exp", "round", "pow"}
\* the one-argument builtins of Python this evaluator applies (pow, with
\* two arguments, is applied too)
Builtins1 == {"abs"}
\* names that are bound in eval's scope but not modelled as callable here
NameTokens == NamespaceFunctions \cup {"namespace"}

ApplyNum(op, x, y) ==
    CASE op = "+" -> NumAdd(x, y)
      [] op = "-" -> NumSub(x, y)
      [] op = "*" -> NumMul(x, y)
      [] op = "/" -> NumDiv(x, y)

\* a binary operator on two values: numpy broadcasts a number over a vector;
\* two Python numbers divide with ZeroDivisionError
BinOp(op, a, b) ==
    IF a.t = "err" THEN a
    ELSE IF b.t = "err" THEN b
    ELSE IF a.t \in {"str", "fn", "none"} \/ b.t \in {"str", "fn", "none"} THEN Err("TypeError")
    ELSE IF a.t = "num" /\ b.t = "num" /\ op = "/" /\ b.v[1].n = 0
         THEN Err("ZeroDivisionError")
    ELSE LET n == IF a.t = "vec" THEN Len(a.v) ELSE Len(b.v)
             r == [k \in 1..n |-> ApplyNum(op, IF a.t = "vec" THEN a.v[k] ELSE a.v[1],
                                               IF b.t = "vec" THEN b.v[k] ELSE b.v[1])]
         IN  IF a.t = "num" /\ b.t = "num" THEN Scalar(r[1]) ELSE Vec(r)

UnaryMinus(a) ==
    IF a.t = "err" THEN a
    ELSE IF a.t \in {"str", "fn", "none"} THEN Err("TypeError")
    ELSE [a EXCEPT !.v = [i \in 1..Len(a.v) |-> Neg(a.v[i])]]

UnaryPlus(a) ==
    IF a.t = "err" THEN a
    ELSE IF a.t \in {"str", "fn", "none"} THEN Err("TypeError")
    ELSE a

CallAbs(a) ==
    IF a.t = "err" THEN a
    ELSE IF a.t \in {"str", "fn", "none"} THEN Err("TypeError")
    ELSE [a EXCEPT !.v = [i \in 1..Len(a.v) |-> NumAbs(a.v[i])]]

\* the square root of a fraction whose numerator and denominator are squares
\* (the tables of the model hold no other base of a fractional power)
SqrtFrac(x) ==
    Frac(CHOOSE r \in 0..x.n : r * r = x.n, CHOOSE r \in 1..x.d : r * r = x.d)

\* numpy.power of float64 values for the exponents 0, 1, -1, 1/2 and -1/2:
\* x ** 0 is 1, a negative base of a fractional power is nan, no error
NumPow(x, y) ==
    CASE y = Int2Num(0) -> Int2Num(1)
      [] y = Int2Num(1) -> x
      [] y = Int2Num(-1) -> NumDiv(Int2Num(1), x)
      [] y \in {Frac(1, 2), Frac(-1, 2)} ->
             LET root == IF IsNaN(x) THEN NaN
                         ELSE IF x.k = "inf" THEN Inf(1)
                         ELSE IF x.n < 0 THEN NaN
                         ELSE SqrtFrac(x)
             IN  IF y.n > 0 THEN root ELSE NumDiv(Int2Num(1), root)

\* pow(a, b), Python's builtin: a vector's __pow__ is numpy.power; two
\* Python numbers raise ZeroDivisionError for 0 to a negative power
CallPow(a, b) ==
    IF a.t = "err" THEN a
    ELSE IF b.t = "err" THEN b
    ELSE IF a.t \in {"str", "fn", "none"} \/ b.t \in {"str", "fn", "none"} THEN Err("TypeError")
    ELSE IF a.t = "num" /\ b.t = "num" /\ a.v[1].n = 0 /\ b.v[1].n < 0
         THEN Err("ZeroDivisionError")
    ELSE LET n == IF a.t = "vec" THEN Len(a.v) ELSE Len(b.v)
             r == [k \in 1..n |-> NumPow(IF a.t = "vec" THEN a.v[k] ELSE a.v[1],
                                         IF b.t = "vec" THEN b.v[k] ELSE b.v[1])]
         IN  IF a.t = "num" /\ b.t = "num" THEN Scalar(r[1]) ELSE Vec(r)

\* namespace[key]: a text key is looked up (the functions replace a column of
\* the same name, by namespace.update); a vector is unhashable
Subscript(ns, key) ==
    IF key.t = "err" THEN key
    ELSE IF key.t = "str"
         THEN IF Len(key.v) = 1 /\ key.v[1] \in NamespaceFunctions THEN Fn(key.v[1])
              ELSE IF key.v \in DOMAIN ns THEN Vec(ns[key.v])
              ELSE Err("KeyError")
    ELSE IF key.t = "vec" THEN Err("TypeError")
    ELSE Err("KeyError")

\* the first index >= i that holds no blank
RECURSIVE SkipBlank(_, _)
SkipBlank(s, i) == IF i <= Len(s) /\ s[i] = " " THEN SkipBlank(s, i + 1) ELSE i

\* the integer literal that starts at i: <<value, index after it>>
RECURSIVE ScanInt(_, _, _)
ScanInt(s, i, acc) ==
    IF i <= Len(s) /\ IsDigit(s[i]) THEN ScanInt(s, i + 1, 10 * acc + DigitVal(s[i]))
    ELSE <<acc, i>>

P(v, i) == [v |-> v, i |-> i]

\* One rule of Python's expression grammar applied at index i0 of s; left is
\* the left operand of the rules that continue an expression.
\*   expr:   term (('+' | '-') term)*
\*   term:   factor (('*' | '/') factor)*
\*   factor: ('+' | '-') factor | atom
\*   atom:   NUMBER | STRING | None | '(' expr ')' | namespace '[' expr ']'
\*           | NAME '(' expr ')' | pow '(' expr ',' expr ')'
RECURSIVE Parse(_, _, _, _, _)
Parse(rule, s, ns, left, i0) ==
    LET i == SkipBlank(s, i0)
    IN  CASE rule = "expr" ->
                 LET l == Parse("term", s, ns, left, i)
                 IN  Parse("expr_rest", s, ns, l.v, l.i)
          [] rule = "expr_rest" ->
                 IF left.t # "err" /\ i <= Len(s) /\ s[i] \in {"+", "-"}
                 THEN LET r == Parse("term", s, ns, left, i + 1)
                      IN  Parse("expr_rest", s, ns, BinOp(s[i], left, r.v), r.i)
                 ELSE P(left, i)
          [] rule = "term" ->
                 LET l == Parse("factor", s, ns, left, i)
                 IN  Parse("term_rest", s, ns, l.v, l.i)
          [] rule = "term_rest" ->
                 IF left.t # "err" /\ i <= Len(s) /\ s[i] \in {"*", "/"}
                 THEN LET r == Parse("factor", s, ns, left, i + 1)
                      IN  Parse("term_rest", s, ns, BinOp(s[i], left, r.v), r.i)
                 ELSE P(left, i)
          [] rule = "factor" ->
                 IF i <= Len(s) /\ s[i] = "-"
                 THEN LET r == Parse("factor", s, ns, left, i + 1) IN P(UnaryMinus(r.v), r.i)
                 ELSE IF i <= Len(s) /\ s[i] = "+"
                 THEN LET r == Parse("factor", s, ns, left, i + 1) IN P(UnaryPlus(r.v), r.i)
                 ELSE Parse("atom", s, ns, left, i)
          [] rule = "atom" ->
                 IF i > Len(s) THEN P(Err("SyntaxError"), i)
                 ELSE IF IsDigit(s[i])
                      THEN LET r == ScanInt(s, i, 0) IN P(Scalar(Int2Num(r[1])), r[2])
                 ELSE IF s[i] \in {DQ, SQ}
                      THEN LET j == NextQuote(s, i, s[i])
                           IN  IF j = 0 THEN P(Err("SyntaxError"), i)
                               ELSE P(Str(SubSeq(s, i + 1, j - 1)), j + 1)
                 ELSE IF s[i] = "("
                      THEN LET r == Parse("expr", s, ns, left, i + 1)
                               j == SkipBlank(s, r.i)
                           IN  IF r.v.t = "err" THEN r
                               ELSE IF j <= Len(s) /\ s[j] = ")" THEN P(r.v, j + 1)
                               ELSE P(Err("SyntaxError"), j)
                 ELSE IF s[i] = "None" THEN P(NoneValue, i + 1)
                 ELSE IF s[i] = "namespace"
                      THEN LET b == SkipBlank(s, i + 1)
                           IN  IF b > Len(s) \/ s[b] # "[" THEN P(Err("TypeError"), b)
                               ELSE LET r == Parse("expr", s, ns, left, b + 1)
                                        j == SkipBlank(s, r.i)
                                    IN  IF r.v.t = "err" THEN r
                                        ELSE IF j <= Len(s) /\ s[j] = "]"
                                             THEN P(Subscript(ns, r.v), j + 1)
                                        ELSE P(Err("SyntaxError"), j)
                 ELSE IF s[i] \in NamespaceFunctions
                      THEN LET b == SkipBlank(s, i + 1)
                           IN  IF b > Len(s) \/ s[b] # "(" THEN P(Err("TypeError"), b)
                               ELSE LET r == Parse("expr", s, ns, left, b + 1)
                                        j == SkipBlank(s, r.i)
                                    IN  IF r.v.t = "err" THEN r
                                        ELSE IF s[i] = "pow" /\ j <= Len(s) /\ s[j] = ","
                                             THEN LET e == Parse("expr", s, ns, left, j + 1)
                                                      h == SkipBlank(s, e.i)
                                                  IN  IF e.v.t = "err" THEN e
                                                      ELSE IF h <= Len(s) /\ s[h] = ")"
                                                           THEN P(CallPow(r.v, e.v), h + 1)
                                                      ELSE P(Err("SyntaxError"), h)
                                        ELSE IF j > Len(s) \/ s[j] # ")"
                                             THEN P(Err("SyntaxError"), j)
                                        ELSE IF s[i] \in Builtins1 THEN P(CallAbs(r.v), j + 1)
                                        ELSE P(Err("NameError"), j + 1)
                 ELSE IF s[i] \in {")", "]", "[", "*", "/", ","} THEN P(Err("SyntaxError"), i)
                 ELSE P(Err("NameError"), i + 1)

\* eval(text) with `namespace` bound to ns: the whole text must be one expression
Eval(s, ns) ==
    LET r == Parse("expr", s, ns, NoneValue, 1)
    IN  IF r.v.t = "err" THEN r.v
        ELSE IF SkipBlank(s, r.i) <= Len(s) THEN Err("SyntaxError")
        ELSE r.v

(***************************************************************************)
(* create_formula                                                          *)
(***************************************************************************)
\* str.replace(old, new): every non-overlapping occurrence, left to right
RECURSIVE ReplaceFrom(_, _, _, _)
ReplaceFrom(s, i, old, new) ==
    IF i > Len(s) THEN <<>>
    ELSE IF StartsAt(s, i, old) THEN new \o ReplaceFrom(s, i + Len(old), old, new)
    ELSE <<s[i]>> \o ReplaceFrom(s, i + 1, old, new)

Replace(s, old, new) == ReplaceFrom(s, 1, old, new)

NamespaceRef(col) == <<"namespace", "[", DQ>> \o col \o <<DQ, "]">>

\* the first loop: every referenced column, coerced, with nan replaced by 1.0;
\* a referenced column the table lacks raises
MissingColumns(cols, table) == {k \in 1..Len(cols) : cols[k] \notin Columns(table)}

BindColumn(table, col) ==
    [i \in 1..Len(table.cols[col]) |-> nan_to_num(to_numeric(table.cols[col][i]))]

BindNamespace(cols, table) ==
    [c \in {cols[k] : k \in 1..Len(cols)} |-> BindColumn(table, c)]

\* the second loop, one pass per entry of columns (a name that is listed
\* twice is replaced twice)
RECURSIVE Substitute(_, _)
Substitute(expr, cols) ==
    IF cols = <<>> THEN expr
    ELSE LET col == Head(cols)
             e1 == Replace(expr, <<DQ>> \o col \o <<DQ>>, NamespaceRef(col))
             e2 == Replace(e1, <<SQ>> \o col \o <<SQ>>, NamespaceRef(col))
         IN  Substitute(e2, Tail(cols))

Raised(kind) == [raised |-> TRUE, value |-> Err(kind)]
Returned(v) == [raised |-> FALSE, value |-> v]

\* a mutant: an evaluation error is swallowed and NaN returned
create_formula_nan_on_error(expr, table) ==
    LET cols == extract_quoted_columns(expr)
    IN  IF MissingColumns(cols, table) # {} THEN Raised("ValueError")
        ELSE LET v == Eval(Substitute(expr, cols), BindNamespace(cols, table))
             IN  IF v.t = "err" THEN Returned(Scalar(NaN)) ELSE Returned(v)

\* create_formula as one call
create_formula(expr, table) ==
    LET cols == extract_quoted_columns(expr)
    IN  IF MissingColumns(cols, table) # {} THEN Raised("ValueError")
        ELSE LET v == Eval(Substitute(expr, cols), BindNamespace(cols, table))
             IN  IF v.t = "err" THEN Raised("ValueError") ELSE Returned(v)

(***************************************************************************)
(* standard_formulas: the generators of the formula texts.  f"{year}" is   *)
(* the decimal text of the integer.                                        *)
(***************************************************************************)
RECURSIVE NatText(_)
NatText(n) == IF n < 10 THEN <<Digits[n + 1]>> ELSE NatText(n \div 10) \o <<Digits[(n % 10) + 1]>>

IntText(n) == IF n < 0 THEN <<"-">> \o NatText(-n) ELSE NatText(n)

\* f"{item}_{year}"
ItemYear(item, year) == <<item, "_">> \o IntText(year)

Revenue == "Müügitulu"
OperatingProfit == "Ärikasum (kahjum)"
Depreciation == "Põhivarade kulum ja väärtuse langus"
NetProfit == "Aruandeaasta kasum (kahjum)"
Equity == "Omakapital"
Assets == "Varad"
Headcount == "Töötajate keskmine arv taandatud täistööajale"
Cash == "Raha"
CurrentAssets == "Käibevarad"
CurrentLiabilities == "Lühiajalised kohustised"
LongTermLiabilities == "Pikaajalised kohustised"
LabourCosts == "Tööjõukulud"

QI(item, year) == <<DQ>> \o ItemYear(item, year) \o <<DQ>>

ebitda_margin(year) ==
    <<"(">> \o QI(OperatingProfit, year) \o <<" ", "+", " ", "abs", "(">>
    \o QI(Depreciation, year) \o <<")", ")", " ", "/", " ">> \o QI(Revenue, year)

revenue_growth(from_year, to_year) ==
    <<"(", "(">> \o QI(Revenue, to_year) \o <<" ", "/", " ">> \o QI(Revenue, from_year)
    \o <<")", " ", "-", " ", "1", ")">>

revenue_cagr(start_year, end_year) ==
    <<"(", "pow", "(", "(">> \o QI(Revenue, end_year) \o <<" ", "/", " ">>
    \o QI(Revenue, start_year) \o <<")", ",", " ", "1", "/">> \o IntText(end_year - start_year)
    \o <<")", " ", "-", " ", "1", ")">>

\* numerator / denominator, or numerator / ((denominator + previous year's) / 2)
SingleOrAverage(num, den, year, binary) ==
    IF binary = 1
    THEN QI(num, year) \o <<" ", "/", " ">> \o QI(den, year)
    ELSE QI(num, year) \o <<" ", "/", " ", "(", "(">> \o QI(den, year) \o <<" ", "+", " ">>
         \o QI(den, year - 1) \o <<")", " ", "/", " ", "2", ")">>

asset_turnover(year, binary) == SingleOrAverage(Revenue, Assets, year, binary)
roe(year, binary) == SingleOrAverage(NetProfit, Equity, year, binary)
roa(year, binary) == SingleOrAverage(NetProfit, Assets, year, binary)
employee_efficiency(year, binary) == SingleOrAverage(Revenue, Headcount, year, binary)

cash_ratio(year) == QI(Cash, year) \o <<" ", "/", " ">> \o QI(CurrentLiabilities, year)
current_ratio(year) == QI(CurrentAssets, year) \o <<" ", "/", " ">> \o QI(CurrentLiabilities, year)
debt_to_equity(year) ==
    <<"(">> \o QI(CurrentLiabilities, year) \o <<" ", "+", " ">> \o QI(LongTermLiabilities, year)
    \o <<")", " ", "/", " ">> \o QI(Equity, year)
labour_ratio(year) == <<"-", "(">> \o QI(LabourCosts, year) \o <<")", " ", "/", " ">> \o QI(Revenue, year)

\* a formula dictionary is the sequence of its items in insertion order
Item(name, expr) == [name |-> name, expr |-> expr]
Names(items) == {items[k].name : k \in 1..Len(items)}

\* d[name] = expr: a present key keeps its place and takes the new value
DictSet(items, name, expr) ==
    IF name \in Names(items)
    THEN [k \in 1..Len(items) |-> IF items[k].name = name THEN Item(name, expr) ELSE items[k]]
    ELSE Append(items, Item(name, expr))

RECURSIVE DictUpdate(_, _)
DictUpdate(items, more) ==
    IF more = <<>> THEN items
    ELSE DictUpdate(DictSet(items, Head(more).name, Head(more).expr), Tail(more))

\* sorted(years, reverse=True)
RECURSIVE SortedDesc(_)
SortedDesc(ys) ==
    IF ys = <<>> THEN <<>>
    ELSE LET rest == SortedDesc(Tail(ys))
             k == Cardinality({j \in 1..Len(rest) : rest[j] >= Head(ys)})
         IN  SubSeq(rest, 1, k) \o <<Head(ys)>> \o SubSeq(rest, k + 1, Len(rest))

NameYear(prefix, year) == <<prefix, "_">> \o IntText(year)
GrowthName(from_year, to_year) ==
    <<"revenue_growth", "_">> \o IntText(from_year) \o <<"_", "to", "_">> \o IntText(to_year)
CagrName(start_year, end_year) ==
    <<"revenue_cagr", "_">> \o IntText(start_year) \o <<"_", "to", "_">> \o IntText(end_year)

\* the thirteen formulas of one year
YearFormulas(year) ==
    << Item(NameYear("ebitda_margin", year), ebitda_margin(year)),
       Item(NameYear("roe", year), roe(year, 0)),
       Item(NameYear("roe_single", year), roe(year, 1)),
       Item(NameYear("roa", year), roa(year, 0)),
       Item(NameYear("roa_single", year), roa(year, 1)),
       Item(NameYear("asset_turnover", year), asset_turnover(year, 0)),
       Item(NameYear("asset_turnover_single", year), asset_turnover(year, 1)),
       Item(NameYear("employee_efficiency", year), employee_efficiency(year, 0)),
       Item(NameYear("employee_efficiency_single", year), employee_efficiency(year, 1)),
       Item(NameYear("cash_ratio", year), cash_ratio(year)),
       Item(NameYear("current_ratio", year), current_ratio(year)),
       Item(NameYear("debt_to_equity", year), debt_to_equity(year)),
       Item(NameYear("labour_ratio", year), labour_ratio(year)) >>

\* the items a loop of d[name] = expr leaves, for names that are distinct
\* except where a year repeats: the first occurrence of each name
RECURSIVE GrowthItems(_, _)
GrowthItems(ys, i) ==
    IF i > Len(ys) - 1 THEN <<>>
    ELSE <<Item(GrowthName(ys[i + 1], ys[i]), revenue_growth(ys[i + 1], ys[i]))>>
         \o GrowthItems(ys, i + 1)

DefaultYears == <<2023, 2022, 2021>>

get_standard_formulas(years_arg) ==
    LET ys == SortedDesc(IF years_arg.given THEN years_arg.v ELSE DefaultYears)
        perYear == Dedup(Concat([k \in 1..Len(ys) |-> YearFormulas(ys[k])]))
        growth == IF Len(ys) >= 2 THEN DictUpdate(perYear, GrowthItems(ys, 1)) ELSE perYear
    IN  IF Len(ys) >= 3
        THEN DictSet(growth, CagrName(ys[Len(ys)], ys[1]), revenue_cagr(ys[Len(ys)], ys[1]))
        ELSE growth

(***************************************************************************)
(* calculate_ratios: the formulas used when the caller gives none          *)
(***************************************************************************)
DefaultFormulas(ys) ==
    << Item(<<"EBITDA_Margin", "_">> \o IntText(ys[1]),
            <<"(">> \o QI(OperatingProfit, ys[1]) \o <<" ", "+", " ">>
            \o QI(Depreciation, ys[1]) \o <<")", " ", "/", " ">> \o QI(Revenue, ys[1])),
       Item(<<"Revenue_Growth">>,
            <<"(">> \o QI(Revenue, ys[1]) \o <<" ", "-", " ">> \o QI(Revenue, ys[2])
            \o <<")", " ", "/", " ">> \o QI(Revenue, ys[2])) >>

(***************************************************************************)
(* Inputs                                                                  *)
(***************************************************************************)
MaxFormulaLen == 4      \* the longest formula text written token by token
MaxRefs == 3            \* the most column references of a written formula
MaxRows == 2            \* the most rows of a generated table

SeqsUpTo(S, n) == UNION {[1..k -> S] : k \in 0..n}

Q(name) == <<DQ>> \o name \o <<DQ>>
QS(name) == <<SQ>> \o name \o <<SQ>>

cX == <<"X">>
cB == <<"B">>
cZ == <<"Z">>           \* a column no table has

\* formula texts of any shape, quotes matched or not
RawFormulas == SeqsUpTo({DQ, SQ, "X", "B", "+"}, MaxFormulaLen)

\* formula texts written from a list of references, each nested one level
\* deeper in the arithmetic: (ref / (ref / (ref / 1)))
RefNames == {cX, cB, <<"X", "B">>}
RefLists == SeqsUpTo([name : RefNames, q : {DQ, SQ}], MaxRefs)

RECURSIVE Render(_)
Render(rs) ==
    IF rs = <<>> THEN <<"1">>
    ELSE <<"(">> \o <<Head(rs).q>> \o Head(rs).name \o <<Head(rs).q>>
         \o <<" ", "/", " ">> \o Render(Tail(rs)) \o <<")">>

RefNamesOf(rs) == [k \in 1..Len(rs) |-> rs[k].name]

\* the formulas create_formula is given
F_x2 == Q(cX) \o <<" ", "*", " ", "2">>                               \* "X" * 2
F_repeat == <<"(">> \o Q(cX) \o <<" ", "-", " ">> \o Q(cB) \o <<")", " ", "/", " ">> \o Q(cB)
                                                                      \* ("X" - "B") / "B"
F_ratio == <<"(">> \o Q(cX) \o <<" ", "+", " ", "abs", "(">> \o QS(cB) \o <<")", ")", " ", "/", " ">> \o <<"1", "0">>
                                                                      \* ("X" + abs('B')) / 10
F_div == Q(cX) \o <<" ", "/", " ">> \o Q(cB)                          \* "X" / "B"
F_neg == <<"-", "(">> \o Q(cB) \o <<")", " ", "/", " ">> \o Q(cX)     \* -("B") / "X"
F_const == <<"1", " ", "+", " ", "2">>                                \* 1 + 2
F_zerodiv == <<"1", " ", "/", " ", "0">>                              \* 1 / 0
F_sqrt == <<"sqrt", "(">> \o Q(cX) \o <<")">>                         \* sqrt("X")
F_missing == Q(cZ) \o <<" ", "*", " ", "2">>                          \* "Z" * 2
F_syntax == Q(cX) \o <<" ", "+">>                                     \* "X" +
F_none == <<"None">>                                                  \* None

\* the formulas that are Python expressions
Formulas == {F_x2, F_repeat, F_ratio, F_div, F_neg, F_const, F_zerodiv, F_sqrt, F_missing, F_none}

XCells == {StrCell(Int2Num(10)), BadCell, NoneCell, NumCell(Int2Num(-20))}
BCells == {NumCell(Int2Num(0)), NumCell(Int2Num(5))}

TableXB(xs, bs) == Table(Len(xs), [c \in {cX, cB} |-> IF c = cX THEN xs ELSE bs])

\* X = ["10", "bad", None]
ExampleTable ==
    TableXB(<<StrCell(Int2Num(10)), BadCell, NoneCell>>,
            <<NumCell(Int2Num(5)), NumCell(Int2Num(0)), NumCell(Int2Num(5))>>)

Tables ==
    UNION {{TableXB(xs, bs) : xs \in [1..n -> XCells], bs \in [1..n -> BCells]} :
               n \in 0..MaxRows}
    \cup {ExampleTable}

(***************************************************************************)
(* Specification SpecExtract: one call of extract_quoted_columns           *)
(***************************************************************************)
InitExtract ==
    /\ pc = "ex_start"
    /\ formula \in RawFormulas \cup {Render(rs) : rs \in RefLists} \cup {None}
    /\ columns = Unused /\ namespace = Unused /\ formula_expr = Unused
    /\ data = Unused /\ result = Unused /\ idx = Unused
    /\ CrUnused /\ VfUnused /\ LdUnused /\ ScUnused /\ PlUnused

Extract ==
    /\ pc = "ex_start"
    /\ columns' = extract_quoted_columns(formula)
    /\ pc' = "ex_done"
    /\ UNCHANGED <<formula, data, namespace, formula_expr, result, idx, crVars, vfVars, ldVars, scVars, plVars>>

NextExtract == Extract

SpecExtract == InitExtract /\ [][NextExtract]_vars

\* lit stands in text between two quotes of one kind and holds no such quote
Enclosed(text, lit) ==
    \E i \in 1..Len(text) :
        /\ text[i] \in {DQ, SQ}
        /\ StartsAt(text, i + 1, lit)
        /\ i + Len(lit) + 1 <= Len(text)
        /\ text[i + Len(lit) + 1] = text[i]
        /\ \A k \in 1..Len(lit) : lit[k] # text[i]

\* C4: extract_quoted_columns returns the quoted literals, one entry per
\* occurrence, in source order, duplicates kept: a formula written from the
\* references r1..rn (either quote style, nested in arithmetic) gives back
\* exactly r1..rn; every returned entry of any formula is a non-empty literal
\* enclosed in a matching pair of quotes; None and the empty text give [].
ExtractReturnsReferencesInOrder ==
    pc = "ex_done" =>
        /\ (formula = None \/ formula = <<>>) => columns = <<>>
        /\ \A rs \in RefLists : formula = Render(rs) => columns = RefNamesOf(rs)
        /\ formula # None =>
               \A k \in 1..Len(columns) : columns[k] # <<>> /\ Enclosed(formula, columns[k])

\* a formula that repeats a reference, in both quote styles, has been extracted
ExtractWitness ==
    /\ pc = "ex_done"
    /\ formula = Render(<<[name |-> cX, q |-> DQ], [name |-> cB, q |-> SQ], [name |-> cX, q |-> SQ]>>)
    /\ columns = <<cX, cB, cX>>

(***************************************************************************)
(* Specification SpecFormula: one call of create_formula                   *)
(***************************************************************************)
InitFormula ==
    /\ pc = "cf_start"
    /\ formula \in Formulas
    /\ data \in Tables
    /\ columns = Unused /\ namespace = Unused /\ formula_expr = Unused
    /\ result = Unused /\ idx = Unused
    /\ CrUnused /\ VfUnused /\ LdUnused /\ ScUnused /\ PlUnused

\* columns = extract_quoted_columns(formula_expr)
CF_Extract ==
    /\ pc = "cf_start"
    /\ columns' = extract_quoted_columns(formula)
    /\ formula_expr' = formula
    /\ pc' = "cf_bind"
    /\ UNCHANGED <<formula, data, namespace, result, idx, crVars, vfVars, ldVars, scVars, plVars>>

\* the first loop meets a column the table lacks
CF_ColumnNotFound ==
    /\ pc = "cf_bind"
    /\ MissingColumns(columns, data) # {}
    /\ result' = Raised("ValueError")
    /\ pc' = "cf_done"
    /\ UNCHANGED <<formula, columns, data, namespace, formula_expr, idx, crVars, vfVars, ldVars, scVars, plVars>>

\* the first loop binds every referenced column
CF_Bind ==
    /\ pc = "cf_bind"
    /\ MissingColumns(columns, data) = {}
    /\ namespace' = BindNamespace(columns, data)
    /\ pc' = "cf_replace"
    /\ UNCHANGED <<formula, columns, data, formula_expr, result, idx, crVars, vfVars, ldVars, scVars, plVars>>

\* the second loop rewrites the quoted names
CF_Replace ==
    /\ pc = "cf_replace"
    /\ formula_expr' = Substitute(formula_expr, columns)
    /\ pc' = "cf_eval"
    /\ UNCHANGED <<formula, columns, data, namespace, result, idx, crVars, vfVars, ldVars, scVars, plVars>>

CF_Eval ==
    /\ pc = "cf_eval"
    /\ Eval(formula_expr, namespace).t # "err"
    /\ result' = Returned(Eval(formula_expr, namespace))
    /\ pc' = "cf_done"
    /\ UNCHANGED <<formula, columns, data, namespace, formula_expr, idx, crVars, vfVars, ldVars, scVars, plVars>>

\* eval raised: create_formula raises ValueError
CF_EvalError ==
    /\ pc = "cf_eval"
    /\ Eval(formula_expr, namespace).t = "err"
    /\ result' = Raised("ValueError")
    /\ pc' = "cf_done"
    /\ UNCHANGED <<formula, columns, data, namespace, formula_expr, idx, crVars, vfVars, ldVars, scVars, plVars>>

NextFormula ==
    \/ CF_Extract
    \/ CF_ColumnNotFound
    \/ CF_Bind
    \/ CF_Replace
    \/ CF_Eval
    \/ CF_EvalError

SpecFormula == InitFormula /\ [][NextFormula]_vars

\* C2: every referenced column is bound to a vector in which a missing cell
\* and a cell that fails numeric coercion are 1.0 and every other cell is
\* its number, before the expression is evaluated; X = ["10", "bad", None]
\* under "X" * 2 gives [20.0, 2.0, 2.0].
MissingValuesBecomeOne ==
    /\ pc \in {"cf_replace", "cf_eval", "cf_done"} =>
           \A c \in DOMAIN namespace : \A i \in 1..RowCount(data) :
               namespace[c][i] = IF data.cols[c][i].c \in {"bad", "none"}
                                 THEN Int2Num(1)
                                 ELSE data.cols[c][i].x
    /\ (pc = "cf_done" /\ formula = F_x2 /\ data = ExampleTable) =>
           result = Returned(Vec(<<Int2Num(20), Int2Num(2), Int2Num(2)>>))

\* "X" * 2 has been evaluated on X = ["10", "bad", None]
MissingValuesWitness ==
    /\ pc = "cf_done"
    /\ formula = F_x2
    /\ data.cols[cX] = <<StrCell(Int2Num(10)), BadCell, NoneCell>>
    /\ ~result.raised
    /\ result.value.v = <<Int2Num(20), Int2Num(2), Int2Num(2)>>

\* C3: for every formula whose referenced columns (zero or more) are all in
\* the table, create_formula returns a vector as long as the table.
CreateFormulaReturnsVector ==
    (pc = "cf_done" /\ MissingColumns(extract_quoted_columns(formula), data) = {}) =>
        /\ ~result.raised
        /\ result.value.t = "vec"
        /\ Len(result.value.v) = RowCount(data)

\* the references to the namespace that the rewritten text holds
NamespaceRefs(expr) == Cardinality({k \in 1..Len(expr) : expr[k] = "namespace"})

\* ("X" / "B") - 1, equal to ("X" - "B") / "B" and without a repeated reference
F_repeat_equal == <<"(">> \o Q(cX) \o <<" ", "/", " ">> \o Q(cB) \o <<")", " ", "-", " ", "1">>

\* C20: in a formula that quotes a column two or more times every quoted
\* occurrence becomes exactly one reference to the column's vector, and the
\* formula evaluates to what the mathematically equal formula gives:
\* ("X" - "B") / "B" gives the result of ("X" / "B") - 1, not an error.
RepeatedReferenceEvaluates ==
    /\ (pc \in {"cf_eval", "cf_done"} /\ MissingColumns(columns, data) = {}
            /\ \E j, k \in 1..Len(columns) : j # k /\ columns[j] = columns[k])
           => NamespaceRefs(formula_expr) = Len(columns)
    /\ (pc = "cf_done" /\ formula = F_repeat)
           => /\ ~result.raised
              /\ result = create_formula(F_repeat_equal, data)

(***************************************************************************)
(* Specification SpecResolve: calculate_ratios from the call to the        *)
(* resolved formula dictionary                                             *)
(***************************************************************************)
MaxYears == 3           \* the longest years argument

YearsPool == {2021, 2022, 2023}

\* formulas={"custom": '"X" * 2'}
ExplicitFormulas == <<Item(<<"custom">>, F_x2)>>

Calls ==
    [years : {Absent} \cup {Given(ys) : ys \in SeqsUpTo(YearsPool, MaxYears)},
     formulas : {Absent, Given(<<>>), Given(ExplicitFormulas)},
     use_standard_formulas : {Absent, Given(TRUE), Given(FALSE)}]

InitResolve ==
    /\ pc = "cr_call"
    /\ call \in Calls
    /\ years = Unused /\ formulas = Unused
    /\ data = Unused /\ result = Unused /\ idx = Unused
    /\ CfUnused /\ VfUnused /\ LdUnused /\ ScUnused /\ PlUnused

\* the signature has no parameter use_standard_formulas
CR_UnexpectedKeyword ==
    /\ pc = "cr_call"
    /\ call.use_standard_formulas.given
    /\ result' = Raised("TypeError")
    /\ pc' = "cr_raised"
    /\ UNCHANGED <<data, idx, cfVars, crVars, vfVars, ldVars, scVars, plVars>>

\* years defaults to [2023, 2022, 2021] and is sorted, most recent first
CR_SortYears ==
    /\ pc = "cr_call"
    /\ ~call.use_standard_formulas.given
    /\ years' = SortedDesc(IF call.years.given THEN call.years.v ELSE DefaultYears)
    /\ formulas' = call.formulas
    /\ pc' = "cr_formulas"
    /\ UNCHANGED <<data, result, idx, cfVars, call, vfVars, ldVars, scVars, plVars>>

\* formulas is not None: it is used as given
CR_ExplicitFormulas ==
    /\ pc = "cr_formulas"
    /\ formulas.given
    /\ formulas' = formulas.v
    /\ pc' = "cr_items"
    /\ UNCHANGED <<data, result, idx, cfVars, call, years, vfVars, ldVars, scVars, plVars>>

\* formulas is None: the default of two formulas, of years[0] and years[1]
CR_DefaultFormulas ==
    /\ pc = "cr_formulas"
    /\ ~formulas.given
    /\ Len(years) >= 2
    /\ formulas' = DefaultFormulas(years)
    /\ pc' = "cr_items"
    /\ UNCHANGED <<data, result, idx, cfVars, call, years, vfVars, ldVars, scVars, plVars>>

\* formulas is None and years has no years[0] or no years[1]
CR_DefaultFormulasIndexError ==
    /\ pc = "cr_formulas"
    /\ ~formulas.given
    /\ Len(years) < 2
    /\ result' = Raised("IndexError")
    /\ pc' = "cr_raised"
    /\ UNCHANGED <<data, idx, cfVars, crVars, vfVars, ldVars, scVars, plVars>>

NextResolve ==
    \/ CR_UnexpectedKeyword
    \/ CR_SortYears
    \/ CR_ExplicitFormulas
    \/ CR_DefaultFormulas
    \/ CR_DefaultFormulasIndexError

SpecResolve == InitResolve /\ [][NextResolve]_vars

\* C7: calculate_ratios uses an explicitly supplied formulas argument as
\* given; otherwise, with use_standard_formulas set, the standard catalog of
\* the given years; otherwise the default of two formulas, and so for every
\* non-empty list of years the call without formulas has formulas to compute.
FormulaSetResolvedByPriority ==
    pc \in {"cr_items", "cr_raised"} =>
        /\ pc = "cr_items"
        /\ call.formulas.given => formulas = call.formulas.v
        /\ (~call.formulas.given /\ call.use_standard_formulas = Given(TRUE)) =>
               formulas = get_standard_formulas(call.years)
        /\ (~call.formulas.given /\ call.use_standard_formulas # Given(TRUE)
                /\ call.years # Given(<<>>)) =>
               Len(formulas) = 2

(***************************************************************************)
(* Specification SpecCustom: validate_formulas and apply_formulas, called  *)
(* by the custom formula branch of _calculate_financial_ratios or          *)
(* directly, and the formula loop of calculate_ratios                      *)
(***************************************************************************)
MaxFormulas == 2        \* the most formulas of a formula dictionary

\* the formula names and a formula over the first formula's output
RatioName(k) == <<"ratio", "_">> \o IntText(k)
F_chain == Q(RatioName(1)) \o <<" ", "+", " ", "1">>                  \* "ratio_1" + 1

CustomExprs == {F_x2, F_repeat, F_missing, F_syntax, F_const, F_none, F_chain}

FormulaDicts ==
    UNION {{[k \in 1..n |-> Item(RatioName(k), es[k])] : es \in [1..n -> CustomExprs]} :
               n \in 0..MaxFormulas}

CustomTables == {Head_n(ExampleTable, 0), Head_n(ExampleTable, 1), ExampleTable}

\* result[formula_name] = value: a vector of the table's length cell by cell,
\* a scalar or None in every row; a vector of another length raises
Assignable(value, n) == value.t = "vec" => Len(value.v) = n
ToColumn(value, n) ==
    CASE value.t = "vec" -> [k \in 1..n |-> NumCell(value.v[k])]
      [] value.t = "num" -> Broadcast(n, NumCell(value.v[1]))
      [] value.t = "none" -> Broadcast(n, NoneCell)
      [] OTHER -> Broadcast(n, BadCell)

\* result[formula_name] = np.nan
NaNColumn(n) == Broadcast(n, NoneCell)

ErrorMsg(name, kind) == [name |-> name, kind |-> kind]

InitCustom ==
    /\ call \in [fn : {"_calculate_financial_ratios", "apply_formulas", "calculate_ratios"},
                 formulas : FormulaDicts]
    /\ call.fn = "_calculate_financial_ratios" => call.formulas # <<>>
    /\ data \in CustomTables
    /\ pc = call.fn
    /\ IF call.fn = "calculate_ratios"
       THEN formulas = call.formulas /\ result = data /\ idx = 1
       ELSE formulas = Unused /\ result = Unused /\ idx = Unused
    /\ years = Unused
    /\ CfUnused /\ VfUnused /\ LdUnused /\ ScUnused /\ PlUnused

\* _calculate_financial_ratios, `if custom_formulas:` calls validate_formulas
CFR_Validate ==
    /\ pc = "_calculate_financial_ratios"
    /\ formulas' = call.formulas
    /\ valid_formulas' = <<>>
    /\ errors' = <<>>
    /\ idx' = 1
    /\ pc' = "vf_loop"
    /\ UNCHANGED <<data, result, cfVars, call, years, ldVars, scVars, plVars>>

\* validate_formulas: the formula references columns the table lacks
VF_MissingColumns ==
    /\ pc = "vf_loop" /\ idx <= Len(formulas)
    /\ MissingColumns(extract_quoted_columns(formulas[idx].expr), data) # {}
    /\ errors' = Append(errors, ErrorMsg(formulas[idx].name, "references missing columns"))
    /\ idx' = idx + 1
    /\ UNCHANGED <<pc, data, result, cfVars, crVars, valid_formulas, ldVars, scVars, plVars>>

\* validate_formulas: create_formula on data.head(1) returned a result
VF_Valid ==
    /\ pc = "vf_loop" /\ idx <= Len(formulas)
    /\ MissingColumns(extract_quoted_columns(formulas[idx].expr), data) = {}
    /\ LET test_result == create_formula(formulas[idx].expr, Head_n(data, 1))
       IN  ~test_result.raised /\ test_result.value # NoneValue
    /\ valid_formulas' = DictSet(valid_formulas, formulas[idx].name, formulas[idx].expr)
    /\ idx' = idx + 1
    /\ UNCHANGED <<pc, data, result, cfVars, crVars, errors, ldVars, scVars, plVars>>

\* validate_formulas: create_formula on data.head(1) returned None
VF_FailedTest ==
    /\ pc = "vf_loop" /\ idx <= Len(formulas)
    /\ MissingColumns(extract_quoted_columns(formulas[idx].expr), data) = {}
    /\ LET test_result == create_formula(formulas[idx].expr, Head_n(data, 1))
       IN  ~test_result.raised /\ test_result.value = NoneValue
    /\ errors' = Append(errors, ErrorMsg(formulas[idx].name, "failed validation test"))
    /\ idx' = idx + 1
    /\ UNCHANGED <<pc, data, result, cfVars, crVars, valid_formulas, ldVars, scVars, plVars>>

\* validate_formulas: create_formula raised
VF_Exception ==
    /\ pc = "vf_loop" /\ idx <= Len(formulas)
    /\ MissingColumns(extract_quoted_columns(formulas[idx].expr), data) = {}
    /\ create_formula(formulas[idx].expr, Head_n(data, 1)).raised
    /\ errors' = Append(errors, ErrorMsg(formulas[idx].name, "validation error"))
    /\ idx' = idx + 1
    /\ UNCHANGED <<pc, data, result, cfVars, crVars, valid_formulas, ldVars, scVars, plVars>>

\* validate_formulas: return valid_formulas, errors
VF_Return ==
    /\ pc = "vf_loop" /\ idx > Len(formulas)
    /\ pc' = "vf_done"
    /\ UNCHANGED <<data, result, idx, cfVars, crVars, vfVars, ldVars, scVars, plVars>>

\* _calculate_financial_ratios: apply_formulas(current_df, valid_formulas)
CFR_ApplyValid ==
    /\ pc = "vf_done"
    /\ formulas' = valid_formulas
    /\ result' = data
    /\ idx' = 1
    /\ pc' = "af_loop"
    /\ UNCHANGED <<data, cfVars, call, years, vfVars, ldVars, scVars, plVars>>

\* apply_formulas: result = data.copy()
AF_Copy ==
    /\ pc = "apply_formulas"
    /\ formulas' = call.formulas
    /\ result' = data
    /\ idx' = 1
    /\ pc' = "af_loop"
    /\ UNCHANGED <<data, cfVars, call, years, vfVars, ldVars, scVars, plVars>>

\* apply_formulas: result[formula_name] = create_formula(formula_expr, result)
AF_Computed ==
    /\ pc = "af_loop" /\ idx <= Len(formulas)
    /\ LET r == create_formula(formulas[idx].expr, result)
       IN  /\ ~r.raised /\ Assignable(r.value, RowCount(result))
           /\ result' = SetColumn(result, formulas[idx].name,
                                  ToColumn(r.value, RowCount(result)))
    /\ idx' = idx + 1
    /\ UNCHANGED <<pc, data, cfVars, crVars, vfVars, ldVars, scVars, plVars>>

\* apply_formulas: except -> result[formula_name] = np.nan
AF_Error ==
    /\ pc = "af_loop" /\ idx <= Len(formulas)
    /\ LET r == create_formula(formulas[idx].expr, result)
       IN  r.raised \/ ~Assignable(r.value, RowCount(result))
    /\ result' = SetColumn(result, formulas[idx].name, NaNColumn(RowCount(result)))
    /\ idx' = idx + 1
    /\ UNCHANGED <<pc, data, cfVars, crVars, vfVars, ldVars, scVars, plVars>>

\* apply_formulas: return result
AF_Return ==
    /\ pc = "af_loop" /\ idx > Len(formulas)
    /\ pc' = "done"
    /\ UNCHANGED <<data, result, idx, cfVars, crVars, vfVars, ldVars, scVars, plVars>>

\* calculate_ratios: result[formula_name] = create_formula(formula_expr, result)
CR_Computed ==
    /\ pc = "calculate_ratios" /\ idx <= Len(formulas)
    /\ LET r == create_formula(formulas[idx].expr, result)
       IN  /\ ~r.raised /\ Assignable(r.value, RowCount(result))
           /\ result' = SetColumn(result, formulas[idx].name,
                                  ToColumn(r.value, RowCount(result)))
    /\ idx' = idx + 1
    /\ UNCHANGED <<pc, data, cfVars, crVars, vfVars, ldVars, scVars, plVars>>

\* calculate_ratios: except -> result[formula_name] = np.nan
CR_Error ==
    /\ pc = "calculate_ratios" /\ idx <= Len(formulas)
    /\ LET r == create_formula(formulas[idx].expr, result)
       IN  r.raised \/ ~Assignable(r.value, RowCount(result))
    /\ result' = SetColumn(result, formulas[idx].name, NaNColumn(RowCount(result)))
    /\ idx' = idx + 1
    /\ UNCHANGED <<pc, data, cfVars, crVars, vfVars, ldVars, scVars, plVars>>

\* calculate_ratios: the table is saved and returned
CR_Save ==
    /\ pc = "calculate_ratios" /\ idx > Len(formulas)
    /\ pc' = "done"
    /\ UNCHANGED <<data, result, idx, cfVars, crVars, vfVars, ldVars, scVars, plVars>>

NextCustom ==
    \/ CFR_Validate
    \/ VF_MissingColumns
    \/ VF_Valid
    \/ VF_FailedTest
    \/ VF_Exception
    \/ VF_Return
    \/ CFR_ApplyValid
    \/ AF_Copy
    \/ AF_Computed
    \/ AF_Error
    \/ AF_Return
    \/ CR_Computed
    \/ CR_Error
    \/ CR_Save

SpecCustom == InitCustom /\ [][NextCustom]_vars

\* all referenced columns are in the table and the evaluation on the
\* first-row slice gives a result
Passes(expr, table) ==
    LET cols == extract_quoted_columns(expr)
    IN  /\ MissingColumns(cols, table) = {}
        /\ Eval(Substitute(expr, cols), BindNamespace(cols, Head_n(table, 1))).t
               \notin {"err", "none"}

\* C5: validate_formulas does not raise and handles each formula on its own:
\* after any number of formulas, and at the return after all of them, the
\* valid dictionary holds exactly the formulas handled so far whose columns
\* are all in the table and whose evaluation on the first-row slice gives a
\* result, with their texts, and the error list holds one entry for each of
\* the others, in order; whether a formula is valid depends on that formula
\* and the table alone.
ValidateFormulasPartitions ==
    pc \in {"vf_loop", "vf_done"} =>
        LET handled == idx - 1
            good == {k \in 1..handled : Passes(formulas[k].expr, data)}
            bad == (1..handled) \ good
        IN  /\ pc = "vf_done" => handled = Len(formulas)
            /\ Names(valid_formulas) = {formulas[k].name : k \in good}
            /\ \A k \in good : \E j \in 1..Len(valid_formulas) : valid_formulas[j] = formulas[k]
            /\ Len(valid_formulas) = Cardinality(good)
            /\ Len(errors) = Cardinality(bad)
            /\ \A k \in bad : \E j \in 1..Len(errors) :
                   /\ errors[j].name = formulas[k].name
                   /\ Cardinality({m \in bad : m < k}) = j - 1

\* a formula over a missing column, then one with a syntax error, then a
\* good one have been validated
ValidateFormulasWitness ==
    /\ pc = "vf_done"
    /\ Len(formulas) >= 2
    /\ formulas[1].expr \in {F_missing, F_syntax}
    /\ formulas[2].expr = F_x2
    /\ valid_formulas = <<formulas[2]>>
    /\ Len(errors) = 1

\* C6: when the ratio calculation is over, every name of the requested
\* formula dictionary is a column of the output table, and the column of a
\* formula that names a missing column or is no expression holds NaN in
\* every row; for calculate_ratios and for the custom formulas of
\* _calculate_financial_ratios.
EveryFormulaHasColumn ==
    (pc = "done" /\ call.fn \in {"calculate_ratios", "_calculate_financial_ratios"}) =>
        \A k \in 1..Len(call.formulas) :
            /\ call.formulas[k].name \in Columns(result)
            /\ call.formulas[k].expr \in {F_missing, F_syntax} =>
                   result.cols[call.formulas[k].name] = NaNColumn(RowCount(result))

(***************************************************************************)
(* Specification SpecLoader: one call of load_financial_data.  The file   *)
(* financials_{year}.csv is a sequence of rows (report_id, tabel,          *)
(* elemendi_label, vaartus); a text is a sequence of words and blanks.     *)
(***************************************************************************)
MaxFileRows == 2        \* the most rows of a financial file

Konsolideeritud == <<" ", "Konsolideeritud">>      \* the pattern ' Konsolideeritud$'

EndsWith(s, suffix) ==
    Len(s) >= Len(suffix) /\ SubSeq(s, Len(s) - Len(suffix) + 1, Len(s)) = suffix

\* str.lower() of one word
Lower(word) == IF word = "Konsolideeritud" THEN "konsolideeritud" ELSE word

\* elemendi_label.str.replace(' Konsolideeritud$', '', regex=True)
clean_elemendi_label(label) ==
    IF EndsWith(label, Konsolideeritud)
    THEN SubSeq(label, 1, Len(label) - Len(Konsolideeritud))
    ELSE label

\* tabel contains 'Konsolideeritud' in any case, or the label ends with
\* ' Konsolideeritud'
is_consolidated(row) ==
    \/ \E k \in 1..Len(row.tabel) : Lower(row.tabel[k]) = "konsolideeritud"
    \/ EndsWith(row.elemendi_label, Konsolideeritud)

\* a mutant: any() over the whole file instead of over the report's rows
has_consolidated_in_file(rows, report_id) ==
    \E k \in 1..Len(rows) : rows[k].is_consolidated

\* groupby('report_id')['is_consolidated'].any(), mapped back by report_id
has_consolidated(rows, report_id) ==
    \E k \in 1..Len(rows) : rows[k].report_id = report_id /\ rows[k].is_consolidated

\* df[mask]: the rows that satisfy Keep, in order
RECURSIVE SelectRows(_, _)
SelectRows(rows, mask) ==
    IF rows = <<>> THEN <<>>
    ELSE (IF mask[1] THEN <<Head(rows)>> ELSE <<>>)
         \o SelectRows(Tail(rows), Tail(mask))

\* the elements of a set of integers in ascending order
Ascending(S) ==
    [k \in 1..Cardinality(S) |-> CHOOSE x \in S : Cardinality({y \in S : y < x}) = k - 1]

\* aggfunc='first': the first value of the group that is not null
FirstValue(rows, report_id, label) ==
    LET group == {k \in 1..Len(rows) : /\ rows[k].report_id = report_id
                                       /\ rows[k].clean_elemendi_label = label
                                       /\ rows[k].vaartus # NoneCell}
    IN  IF group = {} THEN NoneCell
        ELSE rows[CHOOSE k \in group : \A j \in group : k <= j].vaartus

BoolCell(b) == [c |-> "bool", x |-> b]

\* pivot_table(index report_id, columns clean label, aggfunc first) with
\* the groups without a value dropped, the columns renamed to label_year,
\* and the column is_consolidated_year
financial_wide(rows, year) ==
    LET valued == {k \in 1..Len(rows) : rows[k].vaartus # NoneCell}
        ids == Ascending({rows[k].report_id : k \in valued})
        labels == {rows[k].clean_elemendi_label : k \in valued}
        wide == [c \in {label \o <<"_">> \o IntText(year) : label \in labels} |->
                    [k \in 1..Len(ids) |->
                        FirstValue(rows, ids[k],
                                   CHOOSE label \in labels : label \o <<"_">> \o IntText(year) = c)]]
        flags == [c \in {<<"is_consolidated", "_">> \o IntText(year)} |->
                    [k \in 1..Len(ids) |-> BoolCell(has_consolidated(rows, ids[k]))]]
        index == [c \in {<<"report_id">>} |-> [k \in 1..Len(ids) |-> NumCell(Int2Num(ids[k]))]]
    IN  Table(Len(ids), MergeFn(MergeFn(index, wide), flags))

ReportIds == {1, 2}
Tabels == {<<"Bilanss">>, <<"konsolideeritud", " ", "bilanss">>}
Labels == {<<Revenue>>, <<Revenue>> \o Konsolideeritud, <<Assets>>}
Values == {NumCell(Int2Num(40)), NumCell(Int2Num(50)), NoneCell}

FileRows == [report_id : ReportIds, tabel : Tabels, elemendi_label : Labels, vaartus : Values]

\* a consolidated 50 and a standalone 40 of one report and one label
ExampleFile ==
    << [report_id |-> 1, tabel |-> <<"Bilanss">>,
        elemendi_label |-> <<Revenue>>, vaartus |-> NumCell(Int2Num(40))],
       [report_id |-> 1, tabel |-> <<"konsolideeritud", " ", "bilanss">>,
        elemendi_label |-> <<Revenue>>, vaartus |-> NumCell(Int2Num(50))] >>

InitLoader ==
    /\ pc = "load_financial_data"
    /\ call = [year |-> 2023]
    /\ financial_items = <<<<Revenue>>>>
    /\ data \in {Given(rows) : rows \in SeqsUpTo(FileRows, MaxFileRows)} \cup {Absent}
    /\ financial_data = Unused
    /\ years = Unused /\ formulas = Unused
    /\ result = Unused /\ idx = Unused
    /\ CfUnused /\ VfUnused /\ ScUnused /\ PlUnused

\* safe_read_csv found no file: return None
LD_FileNotFound ==
    /\ pc = "load_financial_data"
    /\ ~data.given
    /\ result' = NoneValue
    /\ pc' = "ld_done"
    /\ UNCHANGED <<data, idx, cfVars, crVars, vfVars, ldVars, scVars, plVars>>

\* the clean label, and the rows of the requested items
LD_RequestedItems ==
    /\ pc = "load_financial_data"
    /\ data.given
    /\ LET labelled == [k \in 1..Len(data.v) |->
                           MergeFn(data.v[k],
                                   [f \in {"clean_elemendi_label"} |->
                                       clean_elemendi_label(data.v[k].elemendi_label)])]
       IN  financial_data' =
               SelectRows(labelled,
                          [k \in 1..Len(labelled) |->
                              \E j \in 1..Len(financial_items) :
                                  financial_items[j] = labelled[k].clean_elemendi_label])
    /\ pc' = "ld_flags"
    /\ UNCHANGED <<data, result, idx, cfVars, crVars, vfVars, financial_items, scVars, plVars>>

\* the columns is_consolidated and has_consolidated
LD_ConsolidatedFlags ==
    /\ pc = "ld_flags"
    /\ LET flagged == [k \in 1..Len(financial_data) |->
                          MergeFn(financial_data[k],
                                  [f \in {"is_consolidated"} |->
                                      is_consolidated(financial_data[k])])]
       IN  financial_data' =
               [k \in 1..Len(flagged) |->
                   MergeFn(flagged[k],
                           [f \in {"has_consolidated"} |->
                               has_consolidated(flagged, flagged[k].report_id)])]
    /\ pc' = "ld_filter"
    /\ UNCHANGED <<data, result, idx, cfVars, crVars, vfVars, financial_items, scVars, plVars>>

\* ~has_consolidated | (has_consolidated & is_consolidated)
LD_ConsolidatedFilter ==
    /\ pc = "ld_filter"
    /\ financial_data' =
           SelectRows(financial_data,
                      [k \in 1..Len(financial_data) |->
                          \/ ~financial_data[k].has_consolidated
                          \/ (financial_data[k].has_consolidated
                                  /\ financial_data[k].is_consolidated)])
    /\ pc' = "ld_pivot"
    /\ UNCHANGED <<data, result, idx, cfVars, crVars, vfVars, financial_items, scVars, plVars>>

\* the pivot, the renaming and the returned table
LD_Pivot ==
    /\ pc = "ld_pivot"
    /\ result' = financial_wide(financial_data, call.year)
    /\ pc' = "ld_done"
    /\ UNCHANGED <<data, idx, cfVars, crVars, vfVars, ldVars, scVars, plVars>>

NextLoader ==
    \/ LD_FileNotFound
    \/ LD_RequestedItems
    \/ LD_ConsolidatedFlags
    \/ LD_ConsolidatedFilter
    \/ LD_Pivot

SpecLoader == InitLoader /\ [][NextLoader]_vars

\* row k of the file is of a requested item
Requested(k) ==
    \E j \in 1..Len(financial_items) :
        financial_items[j] = clean_elemendi_label(data.v[k].elemendi_label)

\* row k of the file has to survive: it is of a requested item, and it is
\* consolidated or no requested row of its report is
Survives(k) ==
    /\ Requested(k)
    /\ \/ is_consolidated(data.v[k])
       \/ \A j \in 1..Len(data.v) :
              (Requested(j) /\ data.v[j].report_id = data.v[k].report_id)
                  => ~is_consolidated(data.v[j])

FileColumns(row) == [f \in {"report_id", "tabel", "elemendi_label", "vaartus"} |-> row[f]]

\* C1: of the rows of the requested items, a report that has a row with a
\* consolidated marker (in tabel, or ' Konsolideeritud' at the end of the
\* label) keeps exactly its consolidated rows, and any other report keeps
\* all its rows; no report keeps a consolidated and a standalone row; every
\* value of the pivot is the value of a kept row, and a consolidated 50 with
\* a standalone 40 of one report and label pivots to 50.
ConsolidatedRowsWin ==
    (pc \in {"ld_pivot", "ld_done"} /\ data.given) =>
        /\ [k \in 1..Len(financial_data) |-> FileColumns(financial_data[k])]
               = SelectRows(data.v, [k \in 1..Len(data.v) |-> Survives(k)])
        /\ \A j, k \in 1..Len(financial_data) :
               financial_data[j].report_id = financial_data[k].report_id
                   => financial_data[j].is_consolidated = financial_data[k].is_consolidated
        /\ pc = "ld_done" =>
               /\ \A k \in 1..RowCount(result) :
                      \A c \in Columns(result) \ {<<"report_id">>, <<"is_consolidated", "_">> \o IntText(call.year)} :
                          result.cols[c][k] # NoneCell =>
                              \E j \in 1..Len(data.v) :
                                  /\ Survives(j)
                                  /\ NumCell(Int2Num(data.v[j].report_id)) = result.cols[<<"report_id">>][k]
                                  /\ clean_elemendi_label(data.v[j].elemendi_label)
                                         \o <<"_">> \o IntText(call.year) = c
                                  /\ data.v[j].vaartus = result.cols[c][k]
               /\ data.v = ExampleFile =>
                      result.cols[ItemYear(Revenue, call.year)] = <<NumCell(Int2Num(50))>>

\* the consolidated 50 and the standalone 40 of one report have been pivoted
ConsolidatedRowsWitness ==
    /\ pc = "ld_done"
    /\ data = Given(ExampleFile)
    /\ Len(financial_data) = 1
    /\ result.cols[ItemYear(Revenue, 2023)] = <<NumCell(Int2Num(50))>>

\* C21: after the consolidated filter and before the pivot no two rows of
\* the table have the same report_id and the same clean label, whatever the
\* file holds, so that aggfunc='first' never finds two different values in
\* one group.
OneRowPerReportAndLabel ==
    (pc \in {"ld_pivot", "ld_done"} /\ data.given) =>
        \A j, k \in 1..Len(financial_data) :
            (/\ financial_data[j].report_id = financial_data[k].report_id
             /\ financial_data[j].clean_elemendi_label = financial_data[k].clean_elemendi_label)
                => /\ j = k
                   /\ financial_data[j].vaartus = financial_data[k].vaartus

(***************************************************************************)
(* Specification SpecFlag: one call of flag_investment_vehicles            *)
(***************************************************************************)
MaxFlagRows == 1        \* the most records of the flagged table
MaxFlagYears == 2       \* the longest years argument of the flagger

investment_vehicle == <<"investment_vehicle">>
revenue_col(year) == ItemYear(Revenue, year)                 \* f'Müügitulu_{year}'
ebitda_margin_col(year) == NameYear("ebitda_margin", year)   \* f'ebitda_margin_{year}'

\* (result[revenue_col] == 1) | (result[ebitda_margin_col] > 1.0), each part
\* only if the column is there
YearMask(table, year) ==
    [k \in 1..RowCount(table) |->
        \/ /\ revenue_col(year) \in Columns(table)
           /\ NumEq(table.cols[revenue_col(year)][k].x, Int2Num(1))
        \/ /\ ebitda_margin_col(year) \in Columns(table)
           /\ NumLt(Int2Num(1), table.cols[ebitda_margin_col(year)][k].x)]

\* result.loc[mask, column] = value
SetWhere(table, mask, column, value) ==
    SetColumn(table, column,
              [k \in 1..RowCount(table) |-> IF mask[k] THEN value ELSE table.cols[column][k]])

\* a mutant: result['investment_vehicle'] = mask
FlagRows_overwrite(table, mask) ==
    SetColumn(table, investment_vehicle, [k \in 1..RowCount(table) |-> BoolCell(mask[k])])

\* result.loc[mask, 'investment_vehicle'] = True
FlagRows(table, mask) == SetWhere(table, mask, investment_vehicle, BoolCell(TRUE))

\* a mutant: every formula counts as revenue dependent
revenue_dependent_ratios_all(dict, year) ==
    [k \in 1..Len(dict) |-> dict[k].name]

\* the names of the formulas whose text holds f'Müügitulu_{year}'
revenue_dependent_ratios(dict, year) ==
    LET hits == {k \in 1..Len(dict) : Contains(dict[k].expr, revenue_col(year))}
        order == Ascending(hits)
    IN  [k \in 1..Len(order) |-> dict[order[k]].name]

\* the loop over revenue_dependent_ratios
RECURSIVE NullRatios(_, _, _)
NullRatios(table, mask, ratios) ==
    IF ratios = <<>> THEN table
    ELSE NullRatios(IF Head(ratios) \in Columns(table)
                    THEN SetWhere(table, mask, Head(ratios), NoneCell)
                    ELSE table,
                    mask, Tail(ratios))

\* the formulas: two margins, a growth, a ratio without revenue, a ratio over
\* revenue in single quotes, and a ratio whose column the table lacks
FlagFormulas ==
    << Item(NameYear("ebitda_margin", 2023), ebitda_margin(2023)),
       Item(NameYear("ebitda_margin", 2022), ebitda_margin(2022)),
       Item(GrowthName(2022, 2023), revenue_growth(2022, 2023)),
       Item(NameYear("roe_single", 2023), roe(2023, 1)),
       Item(<<"custom">>, QS(ItemYear(Revenue, 2022)) \o <<" ", "/", " ", "2">>),
       Item(NameYear("asset_turnover_single", 2023), asset_turnover(2023, 1)) >>

Half == Frac(1, 2)
RevenueValues2023 == {NumCell(Int2Num(1)), NumCell(Int2Num(100)), NoneCell}
RevenueValues2022 == {NumCell(Int2Num(1)), NumCell(Int2Num(100))}
MarginValues2023 == {NumCell(Half), NumCell(Int2Num(1)), NumCell(Int2Num(2))}
MarginValues2022 == {NumCell(Half), NumCell(Inf(1))}

\* the columns of a table that has them all
FlagColumns ==
    {revenue_col(2023), revenue_col(2022), ebitda_margin_col(2023), ebitda_margin_col(2022),
     GrowthName(2022, 2023), NameYear("roe_single", 2023), <<"custom">>}

FlagRecord(revenue2023, revenue2022, margin2023, margin2022) ==
    [c \in FlagColumns |->
        CASE c = revenue_col(2023) -> revenue2023
          [] c = revenue_col(2022) -> revenue2022
          [] c = ebitda_margin_col(2023) -> margin2023
          [] c = ebitda_margin_col(2022) -> margin2022
          [] OTHER -> NumCell(Half)]

FlagRecordPool ==
    {FlagRecord(r23, r22, m23, m22) :
        r23 \in RevenueValues2023, r22 \in RevenueValues2022,
        m23 \in MarginValues2023, m22 \in MarginValues2022}

\* the tables: every column, or without a margin column, or without a
\* revenue column
FlagTables ==
    {Table(Len(rs), [c \in FlagColumns \ drop |-> [k \in 1..Len(rs) |-> rs[k][c]]]) :
        rs \in SeqsUpTo(FlagRecordPool, MaxFlagRows),
        drop \in {{}, {ebitda_margin_col(2023)}, {revenue_col(2022)}}}

InitFlag ==
    /\ pc = "flag_investment_vehicles"
    /\ data \in FlagTables
    /\ years \in SeqsUpTo({2022, 2023}, MaxFlagYears)
    /\ formulas = FlagFormulas
    /\ call = Unused /\ result = Unused /\ idx = Unused
    /\ CfUnused /\ VfUnused /\ LdUnused /\ ScUnused /\ PlUnused

\* result = data.copy(); result['investment_vehicle'] = False
FIV_Copy ==
    /\ pc = "flag_investment_vehicles"
    /\ result' = SetColumn(data, investment_vehicle, Broadcast(RowCount(data), BoolCell(FALSE)))
    /\ idx' = 1
    /\ pc' = "fiv_loop"
    /\ UNCHANGED <<data, cfVars, crVars, vfVars, ldVars, scVars, plVars>>

\* one year of the loop: the mask, the flag, the revenue dependent ratios
FIV_Year ==
    /\ pc = "fiv_loop" /\ idx <= Len(years)
    /\ LET mask == YearMask(result, years[idx])
       IN  result' = NullRatios(FlagRows(result, mask), mask,
                                revenue_dependent_ratios(formulas, years[idx]))
    /\ idx' = idx + 1
    /\ UNCHANGED <<pc, data, cfVars, crVars, vfVars, ldVars, scVars, plVars>>

\* return result
FIV_Return ==
    /\ pc = "fiv_loop" /\ idx > Len(years)
    /\ pc' = "fiv_done"
    /\ UNCHANGED <<data, result, idx, cfVars, crVars, vfVars, ldVars, scVars, plVars>>

NextFlag ==
    \/ FIV_Copy
    \/ FIV_Year
    \/ FIV_Return

SpecFlag == InitFlag /\ [][NextFlag]_vars

\* record k of the table given to the flagger meets the condition of year
MeetsCondition(year, k) ==
    \/ /\ revenue_col(year) \in Columns(data)
       /\ data.cols[revenue_col(year)][k] = NumCell(Int2Num(1))
    \/ /\ ebitda_margin_col(year) \in Columns(data)
       /\ LET x == data.cols[ebitda_margin_col(year)][k].x
          IN  \/ x.k = "inf" /\ x.n > 0
              \/ x.k = "fin" /\ x.n > x.d

FlagIsOrOverYears ==
    pc \in {"fiv_loop", "fiv_done"} =>
        \A k \in 1..RowCount(data) :
            result.cols[investment_vehicle][k] =
                BoolCell(\E j \in 1..(idx - 1) : MeetsCondition(years[j], k))

FlagStaysSet ==
    pc = "fiv_loop" =>
        \A k \in 1..RowCount(data) :
            result.cols[investment_vehicle][k] = BoolCell(TRUE)
                => result'.cols[investment_vehicle][k] = BoolCell(TRUE)

\* C8: after any number of years of the loop, and at the return,
\* investment_vehicle of a record is True iff for one of the years handled so
\* far its Müügitulu_Y is 1 or its ebitda_margin_Y is above 1.0 (a column
\* the table lacks counts for nothing); and a flag that is True stays True
\* in every later step.
InvestmentVehicleFlag == [](FlagIsOrOverYears) /\ [][FlagStaysSet]_vars

\* a record flagged for 2023 alone has gone through the year 2022 after it
InvestmentVehicleWitness ==
    /\ pc = "fiv_done"
    /\ years = <<2023, 2022>>
    /\ RowCount(data) >= 1
    /\ MeetsCondition(2023, 1) /\ ~MeetsCondition(2022, 1)
    /\ result.cols[investment_vehicle][1] = BoolCell(TRUE)

MaxThresholds == 2      \* the most thresholds of a generated metric
MaxScoreRows == 1       \* the most records of a generated series

\* {"min": bound, "points": points} and {"max": bound, "points": points}
MinThreshold(bound, points) == [kind |-> "min", bound |-> bound, points |-> points]
MaxThreshold(bound, points) == [kind |-> "max", bound |-> bound, points |-> points]

\* the sort keys: (-points, -min) for min thresholds, (-points, max) for max
KeyBefore(a, b) ==
    \/ a.points > b.points
    \/ /\ a.points = b.points
       /\ IF a.kind = "min" THEN NumLt(b.bound, a.bound) ELSE NumLt(a.bound, b.bound)

\* a mutant: the key is the bound alone
BoundBefore(a, b) ==
    IF a.kind = "min" THEN NumLt(b.bound, a.bound) ELSE NumLt(a.bound, b.bound)

\* list.sort(key=...): stable; before[j, k] says that the key of ts[j] is
\* less than the key of ts[k]
StableSort(ts, before) ==
    LET rank(k) == Cardinality({j \in 1..Len(ts) :
                       j # k /\ (before[j, k] \/ (~before[k, j] /\ j < k))})
    IN  [r \in 1..Len(ts) |-> ts[CHOOSE k \in 1..Len(ts) : rank(k) = r - 1]]

\* [t for t in thresholds if kind in t]
OfKind(ts, kind) ==
    SelectRows(ts, [k \in 1..Len(ts) |-> ts[k].kind = kind])

\* a mutant: both lists sorted by the bound alone
sort_thresholds_by_bound(ts) ==
    LET min_thresholds == OfKind(ts, "min")
        max_thresholds == OfKind(ts, "max")
    IN  StableSort(min_thresholds,
                   [j, k \in 1..Len(min_thresholds) |->
                       BoundBefore(min_thresholds[j], min_thresholds[k])])
        \o StableSort(max_thresholds,
                      [j, k \in 1..Len(max_thresholds) |->
                          BoundBefore(max_thresholds[j], max_thresholds[k])])

\* _sort_thresholds: the min thresholds, sorted, then the max thresholds, sorted
sort_thresholds(ts) ==
    LET min_thresholds == OfKind(ts, "min")
        max_thresholds == OfKind(ts, "max")
    IN  StableSort(min_thresholds,
                   [j, k \in 1..Len(min_thresholds) |->
                       KeyBefore(min_thresholds[j], min_thresholds[k])])
        \o StableSort(max_thresholds,
                      [j, k \in 1..Len(max_thresholds) |->
                          KeyBefore(max_thresholds[j], max_thresholds[k])])

\* series.notna() & pd.to_numeric(series, errors='coerce').notna()
valid_mask(series) ==
    [k \in 1..Len(series) |-> series[k].c \in {"num", "str"} /\ ~IsNaN(to_numeric(series[k]))]

\* condition: valid_series >= threshold["min"], or <= threshold["max"]
Meets(cell, threshold) ==
    IF threshold.kind = "min" THEN NumLe(threshold.bound, to_numeric(cell))
    ELSE NumLe(to_numeric(cell), threshold.bound)

\* one threshold of the loop: the records that meet it and have score 0 get
\* its points
ApplyThreshold(sc, series, threshold) ==
    [k \in 1..Len(series) |->
        IF valid_mask(series)[k] /\ Meets(series[k], threshold) /\ sc[k] = 0
        THEN threshold.points
        ELSE sc[k]]

Fifth == Frac(1, 5)
ThresholdPool ==
    { MinThreshold(Frac(2, 5), 3), MinThreshold(Fifth, 2), MinThreshold(Frac(1, 10), 1),
      MinThreshold(Frac(2, 5), 0), MinThreshold(Frac(1, 10), 3), MaxThreshold(Fifth, 1),
      MaxThreshold(Half, 3) }

\* thresholds 0.40: 3, 0.20: 2, 0.10: 1
ExampleThresholds ==
    <<MinThreshold(Frac(2, 5), 3), MinThreshold(Fifth, 2), MinThreshold(Frac(1, 10), 1)>>

MetricValues ==
    {NumCell(Frac(1, 20)), NumCell(Frac(1, 4)), NumCell(Half), NoneCell, BadCell}

InitScore ==
    /\ pc = "score_companies"
    /\ call \in [thresholds : (SeqsUpTo(ThresholdPool, MaxThresholds) \ {<<>>})
                                  \cup {ExampleThresholds,
                                        <<ExampleThresholds[3], ExampleThresholds[1],
                                          ExampleThresholds[2]>>},
                 auto_sort : BOOLEAN]
    /\ data \in SeqsUpTo(MetricValues, MaxScoreRows)
    /\ thresholds = Unused /\ scores = Unused
    /\ years = Unused /\ formulas = Unused
    /\ result = Unused /\ idx = Unused
    /\ CfUnused /\ VfUnused /\ LdUnused /\ PlUnused

\* score_companies: auto_sort, thresholds = _sort_thresholds(thresholds)
SC_Sort ==
    /\ pc = "score_companies"
    /\ call.auto_sort
    /\ thresholds' = sort_thresholds(call.thresholds)
    /\ pc' = "_calculate_metric_scores"
    /\ UNCHANGED <<data, result, idx, cfVars, crVars, vfVars, ldVars, plVars, scores>>

\* score_companies: auto_sort is off
SC_AsGiven ==
    /\ pc = "score_companies"
    /\ ~call.auto_sort
    /\ thresholds' = call.thresholds
    /\ pc' = "_calculate_metric_scores"
    /\ UNCHANGED <<data, result, idx, cfVars, crVars, vfVars, ldVars, plVars, scores>>

\* _calculate_metric_scores: no valid value, return the zeros
MS_NoValidValues ==
    /\ pc = "_calculate_metric_scores"
    /\ \A k \in 1..Len(data) : ~valid_mask(data)[k]
    /\ scores' = [k \in 1..Len(data) |-> 0]
    /\ pc' = "ms_done"
    /\ UNCHANGED <<data, result, idx, cfVars, crVars, vfVars, ldVars, plVars, thresholds>>

\* _calculate_metric_scores: scores = 0, the loop starts
MS_Zeros ==
    /\ pc = "_calculate_metric_scores"
    /\ \E k \in 1..Len(data) : valid_mask(data)[k]
    /\ scores' = [k \in 1..Len(data) |-> 0]
    /\ idx' = 1
    /\ pc' = "ms_loop"
    /\ UNCHANGED <<data, result, cfVars, crVars, vfVars, ldVars, plVars, thresholds>>

\* the loop: a threshold with "min"
MS_Min ==
    /\ pc = "ms_loop" /\ idx <= Len(thresholds)
    /\ thresholds[idx].kind = "min"
    /\ scores' = ApplyThreshold(scores, data, thresholds[idx])
    /\ idx' = idx + 1
    /\ UNCHANGED <<pc, data, result, cfVars, crVars, vfVars, ldVars, plVars, thresholds>>

\* the loop: a threshold with "max"
MS_Max ==
    /\ pc = "ms_loop" /\ idx <= Len(thresholds)
    /\ thresholds[idx].kind = "max"
    /\ scores' = ApplyThreshold(scores, data, thresholds[idx])
    /\ idx' = idx + 1
    /\ UNCHANGED <<pc, data, result, cfVars, crVars, vfVars, ldVars, plVars, thresholds>>

\* return scores
MS_Return ==
    /\ pc = "ms_loop" /\ idx > Len(thresholds)
    /\ pc' = "ms_done"
    /\ UNCHANGED <<data, result, idx, cfVars, crVars, vfVars, ldVars, scVars, plVars>>

NextScore ==
    \/ SC_Sort
    \/ SC_AsGiven
    \/ MS_NoValidValues
    \/ MS_Zeros
    \/ MS_Min
    \/ MS_Max
    \/ MS_Return

SpecScore == InitScore /\ [][NextScore]_vars

\* all thresholds are of the min kind, in the order points descending, min
\* descending
MinSorted(ts) ==
    /\ \A k \in 1..Len(ts) : ts[k].kind = "min"
    /\ \A j, k \in 1..Len(ts) :
           j < k => \/ ts[j].points > ts[k].points
                    \/ (ts[j].points = ts[k].points /\ ~NumLt(ts[j].bound, ts[k].bound))

\* the most points of a threshold of ts whose min the cell's number meets, 0
\* if there is none or the cell holds no number
HighestPointsMet(cell, ts) ==
    LET met == {k \in 1..Len(ts) :
                   /\ cell.c \in {"num", "str"}
                   /\ cell.x.k # "nan"
                   /\ ~NumLt(cell.x, ts[k].bound)}
    IN  IF met = {} THEN 0
        ELSE ts[CHOOSE k \in met : \A j \in met : ts[j].points <= ts[k].points].points

FirstMetPoints(cell, ts) ==
    LET met == {k \in 1..Len(ts) : valid_mask(<<cell>>)[1] /\ Meets(cell, ts[k])}
    IN  IF met = {} THEN 0
        ELSE ts[CHOOSE k \in met : \A j \in met : k <= j].points

\* the list has a min and a max threshold
Mixed(ts) ==
    /\ \E k \in 1..Len(ts) : ts[k].kind = "min"
    /\ \E k \in 1..Len(ts) : ts[k].kind = "max"

\* C25: for a metric with min and max thresholds _sort_thresholds returns
\* all of them, the min thresholds (points descending, min descending)
\* before the max thresholds (points descending, max ascending), and every
\* record gets the points of the first threshold of that order that it
\* meets: a min threshold it meets goes before a max threshold it meets,
\* also one of more points.
MixedThresholdsMinFirst ==
    (call.auto_sort /\ Mixed(call.thresholds) /\ pc # "score_companies") =>
        /\ Len(thresholds) = Len(call.thresholds)
        /\ \A t \in ThresholdPool :
               Cardinality({k \in 1..Len(thresholds) : thresholds[k] = t})
                   = Cardinality({k \in 1..Len(call.thresholds) : call.thresholds[k] = t})
        /\ \A j, k \in 1..Len(thresholds) :
               j < k =>
                   /\ thresholds[k].kind = "min" => thresholds[j].kind = "min"
                   /\ thresholds[j].kind = thresholds[k].kind =>
                          ~KeyBefore(thresholds[k], thresholds[j])
        /\ pc = "ms_done" =>
               \A k \in 1..Len(data) : scores[k] = FirstMetPoints(data[k], sort_thresholds(call.thresholds))

\* C28: in whatever order the thresholds are given to
\* _calculate_metric_scores (auto_sort on or off), after every threshold of
\* the loop and at the return every record has the points of the first
\* threshold handled so far that its value meets, for all points >= 0: no
\* later threshold changes an award.
FirstMatchWins ==
    /\ pc = "ms_loop" =>
           \A k \in 1..Len(data) :
               scores[k] = FirstMetPoints(data[k], SubSeq(thresholds, 1, idx - 1))
    /\ pc = "ms_done" =>
           \A k \in 1..Len(data) : scores[k] = FirstMetPoints(data[k], thresholds)

(***************************************************************************)
(* Specification SpecCatalog: get_standard_formulas and                    *)
(* build_custom_formula_set                                                *)
(***************************************************************************)
MaxCatalogYears == 3    \* the longest list of years a catalog call is given

CatalogYears == {2021, 2022, 2023}

\* the families whose denominator is averaged with the previous year's
AveragingFamilies == {"roe", "roa", "asset_turnover", "employee_efficiency"}

\* f"{family}{suffix}" for suffix "" and "_single"
FamilySuffix(family, suffix) ==
    IF suffix = "" THEN family
    ELSE CASE family = "roe" -> "roe_single"
           [] family = "roa" -> "roa_single"
           [] family = "asset_turnover" -> "asset_turnover_single"
           [] family = "employee_efficiency" -> "employee_efficiency_single"

\* a mutant: the generators are called without binary
binary_default(use_averages) == 0

\* binary = 0 if use_averages else 1
binary(use_averages) == IF use_averages THEN 0 ELSE 1

\* suffix = "" if use_averages else "_single"
suffix(use_averages) == IF use_averages THEN "" ELSE "_single"

\* the four formulas of include_efficiency for one year
EfficiencyFormulas(year, use_averages) ==
    << Item(NameYear(FamilySuffix("roe", suffix(use_averages)), year),
            roe(year, binary(use_averages))),
       Item(NameYear(FamilySuffix("roa", suffix(use_averages)), year),
            roa(year, binary(use_averages))),
       Item(NameYear(FamilySuffix("asset_turnover", suffix(use_averages)), year),
            asset_turnover(year, binary(use_averages))),
       Item(NameYear(FamilySuffix("employee_efficiency", suffix(use_averages)), year),
            employee_efficiency(year, binary(use_averages))) >>

LiquidityFormulas(year) ==
    << Item(NameYear("cash_ratio", year), cash_ratio(year)),
       Item(NameYear("current_ratio", year), current_ratio(year)) >>

LeverageFormulas(year) ==
    << Item(NameYear("debt_to_equity", year), debt_to_equity(year)),
       Item(NameYear("labour_ratio", year), labour_ratio(year)) >>

\* for year in years: formulas.update(...)
PerYear(items, ys, per_year) ==
    DictUpdate(items, Concat([k \in 1..Len(ys) |-> per_year[ys[k]]]))

\* a mutant: a CAGR formula from two years on
has_cagr_from_two(ys) == Len(ys) >= 2

\* len(years) >= 3
has_cagr(ys) == Len(ys) >= 3

YearLists == SeqsUpTo(CatalogYears, MaxCatalogYears)

InitCatalog ==
    /\ pc = "catalog"
    /\ call \in [fn : {"get_standard_formulas"}, years : {Given(ys) : ys \in YearLists} \cup {Absent}]
           \cup [fn : {"build_custom_formula_set"}, years : {Given(ys) : ys \in YearLists},
                 include_growth : BOOLEAN, include_efficiency : BOOLEAN,
                 include_liquidity : BOOLEAN, include_leverage : BOOLEAN,
                 use_averages : BOOLEAN]
    /\ years = Unused /\ formulas = Unused
    /\ data = Unused /\ result = Unused /\ idx = Unused
    /\ CfUnused /\ VfUnused /\ LdUnused /\ ScUnused /\ PlUnused

\* get_standard_formulas: the default years, sorted(years, reverse=True)
GSF_Years ==
    /\ pc = "catalog" /\ call.fn = "get_standard_formulas"
    /\ years' = SortedDesc(IF call.years.given THEN call.years.v ELSE DefaultYears)
    /\ formulas' = <<>>
    /\ idx' = 1
    /\ pc' = "gsf_years"
    /\ UNCHANGED <<call, data, result, cfVars, vfVars, ldVars, scVars, plVars>>

\* get_standard_formulas: one year of the loop
GSF_Year ==
    /\ pc = "gsf_years" /\ idx <= Len(years)
    /\ formulas' = DictUpdate(formulas, YearFormulas(years[idx]))
    /\ idx' = idx + 1
    /\ UNCHANGED <<pc, call, years, data, result, cfVars, vfVars, ldVars, scVars, plVars>>

\* get_standard_formulas: the growth formulas of the adjacent years
GSF_Growth ==
    /\ pc = "gsf_years" /\ idx > Len(years)
    /\ formulas' = IF Len(years) >= 2 THEN DictUpdate(formulas, GrowthItems(years, 1))
                   ELSE formulas
    /\ pc' = "gsf_cagr"
    /\ UNCHANGED <<call, years, idx, data, result, cfVars, vfVars, ldVars, scVars, plVars>>

\* get_standard_formulas: the CAGR formula, return formulas
GSF_Cagr ==
    /\ pc = "gsf_cagr"
    /\ formulas' = IF has_cagr(years)
                   THEN DictSet(formulas, CagrName(years[Len(years)], years[1]),
                                revenue_cagr(years[Len(years)], years[1]))
                   ELSE formulas
    /\ pc' = "catalog_done"
    /\ UNCHANGED <<call, years, idx, data, result, cfVars, vfVars, ldVars, scVars, plVars>>

\* build_custom_formula_set: sorted years and the ebitda_margin loop
BCS_Ebitda ==
    /\ pc = "catalog" /\ call.fn = "build_custom_formula_set"
    /\ years' = SortedDesc(call.years.v)
    /\ formulas' = PerYear(<<>>, SortedDesc(call.years.v),
                           [y \in CatalogYears |->
                               <<Item(NameYear("ebitda_margin", y), ebitda_margin(y))>>])
    /\ pc' = "bcs_efficiency"
    /\ UNCHANGED <<call, idx, data, result, cfVars, vfVars, ldVars, scVars, plVars>>

\* build_custom_formula_set: if include_efficiency
BCS_Efficiency ==
    /\ pc = "bcs_efficiency"
    /\ formulas' = IF call.include_efficiency
                   THEN PerYear(formulas, years,
                                [y \in CatalogYears |-> EfficiencyFormulas(y, call.use_averages)])
                   ELSE formulas
    /\ pc' = "bcs_liquidity"
    /\ UNCHANGED <<call, years, idx, data, result, cfVars, vfVars, ldVars, scVars, plVars>>

\* build_custom_formula_set: if include_liquidity
BCS_Liquidity ==
    /\ pc = "bcs_liquidity"
    /\ formulas' = IF call.include_liquidity
                   THEN PerYear(formulas, years, [y \in CatalogYears |-> LiquidityFormulas(y)])
                   ELSE formulas
    /\ pc' = "bcs_leverage"
    /\ UNCHANGED <<call, years, idx, data, result, cfVars, vfVars, ldVars, scVars, plVars>>

\* build_custom_formula_set: if include_leverage
BCS_Leverage ==
    /\ pc = "bcs_leverage"
    /\ formulas' = IF call.include_leverage
                   THEN PerYear(formulas, years, [y \in CatalogYears |-> LeverageFormulas(y)])
                   ELSE formulas
    /\ pc' = "bcs_growth"
    /\ UNCHANGED <<call, years, idx, data, result, cfVars, vfVars, ldVars, scVars, plVars>>

\* build_custom_formula_set: if include_growth and len(years) >= 2, return
BCS_Growth ==
    /\ pc = "bcs_growth"
    /\ formulas' =
           IF call.include_growth /\ Len(years) >= 2
           THEN LET growth == DictUpdate(formulas, GrowthItems(years, 1))
                IN  IF Len(years) >= 3
                    THEN DictSet(growth, CagrName(years[Len(years)], years[1]),
                                 revenue_cagr(years[Len(years)], years[1]))
                    ELSE growth
           ELSE formulas
    /\ pc' = "catalog_done"
    /\ UNCHANGED <<call, years, idx, data, result, cfVars, vfVars, ldVars, scVars, plVars>>

NextCatalog ==
    \/ GSF_Years
    \/ GSF_Year
    \/ GSF_Growth
    \/ GSF_Cagr
    \/ BCS_Ebitda
    \/ BCS_Efficiency
    \/ BCS_Liquidity
    \/ BCS_Leverage
    \/ BCS_Growth

SpecCatalog == InitCatalog /\ [][NextCatalog]_vars

\* the generator of an averaging family
Generator(family, year, b) ==
    CASE family = "roe" -> roe(year, b)
      [] family = "roa" -> roa(year, b)
      [] family = "asset_turnover" -> asset_turnover(year, b)
      [] family = "employee_efficiency" -> employee_efficiency(year, b)

SingleNames ==
    {"roe_single", "roa_single", "asset_turnover_single", "employee_efficiency_single"}

OtherFamilies ==
    {"ebitda_margin", "cash_ratio", "current_ratio", "debt_to_equity", "labour_ratio",
     "revenue_growth", "revenue_cagr"}

\* C13: build_custom_formula_set names the roe, roa, asset_turnover and
\* employee_efficiency formulas with _single before the year exactly when
\* use_averages is False; no other family's name carries it; and the
\* expression under a name is the single-year variant iff the name carries
\* _single.
SingleSuffixIffNoAverages ==
    (pc = "catalog_done" /\ call.fn = "build_custom_formula_set") =>
        /\ \A k \in 1..Len(formulas) :
               /\ formulas[k].name[1] \in SingleNames \cup AveragingFamilies \cup OtherFamilies
               /\ formulas[k].name[1] \in SingleNames => ~call.use_averages
               /\ formulas[k].name[1] \in AveragingFamilies => call.use_averages
               /\ \A y \in CatalogYears : \A f \in AveragingFamilies :
                      /\ formulas[k].name = NameYear(f, y)
                             => formulas[k].expr = Generator(f, y, 0)
                      /\ formulas[k].name = NameYear(FamilySuffix(f, "_single"), y)
                             => formulas[k].expr = Generator(f, y, 1)
        /\ call.include_efficiency =>
               \A k \in 1..Len(years) : \A f \in AveragingFamilies :
                   NameYear(FamilySuffix(f, IF call.use_averages THEN "" ELSE "_single"),
                            years[k]) \in Names(formulas)

\* the set for 2023 and 2022 has been built without averages
SingleSuffixWitness ==
    /\ pc = "catalog_done" /\ call.fn = "build_custom_formula_set"
    /\ call.years = Given(<<2022, 2023>>)
    /\ ~call.use_averages /\ call.include_efficiency
    /\ \E k \in 1..Len(formulas) :
           formulas[k] = Item(<<"roe_single", "_", "2", "0", "2", "3">>, roe(2023, 1))

CatalogPrefixes == SingleNames \cup AveragingFamilies \cup (OtherFamilies \ {"revenue_growth", "revenue_cagr"})

YearSet(ys) == {ys[k] : k \in 1..Len(ys)}

\* the pairs of years of S with no year of S between them
AdjacentYears(S) ==
    {p \in S \X S : p[1] < p[2] /\ ~\E c \in S : p[1] < c /\ c < p[2]}

Smallest(S) == CHOOSE y \in S : \A z \in S : y <= z
Largest(S) == CHOOSE y \in S : \A z \in S : z <= y

\* C14: for n distinct years get_standard_formulas returns one formula per
\* (catalog metric, year), one revenue_growth formula per pair of adjacent
\* years (n - 1 of them, named from the smaller to the larger year), and one
\* revenue_cagr formula from the smallest to the largest year iff n >= 3;
\* the years' order in the argument does not matter.
StandardFormulasComplete ==
    (pc = "catalog_done" /\ call.fn = "get_standard_formulas") =>
        LET given == IF call.years.given THEN call.years.v ELSE DefaultYears
            S == YearSet(given)
            n == Cardinality(S)
        IN  Len(given) = n =>
                /\ Names(formulas) =
                       {NameYear(p, y) : p \in CatalogPrefixes, y \in S}
                       \cup {GrowthName(p[1], p[2]) : p \in AdjacentYears(S)}
                       \cup (IF n >= 3 THEN {CagrName(Smallest(S), Largest(S))} ELSE {})
                /\ Len(formulas) = 13 * n + (IF n >= 1 THEN n - 1 ELSE 0)
                                   + (IF n >= 3 THEN 1 ELSE 0)
                /\ \A k \in 1..Len(formulas) :
                       /\ \A p \in AdjacentYears(S) :
                              formulas[k].name = GrowthName(p[1], p[2])
                                  => formulas[k].expr = revenue_growth(p[1], p[2])
                       /\ \A a, b \in S :
                              formulas[k].name = CagrName(a, b)
                                  => formulas[k].expr = revenue_cagr(Smallest(S), Largest(S))
                /\ \A other \in YearLists :
                       (YearSet(other) = S /\ Len(other) = n)
                           => get_standard_formulas(Given(other)) = formulas

\* three years, given out of order, have got their catalog
StandardFormulasWitness ==
    /\ pc = "catalog_done" /\ call.fn = "get_standard_formulas"
    /\ call.years = Given(<<2021, 2023, 2022>>)
    /\ Len(formulas) = 42
    /\ formulas[42].name = CagrName(2021, 2023)
    /\ formulas[40].name = GrowthName(2022, 2023)

(***************************************************************************)
(* Configuration values: a Python value is a record of its type and value  *)
(***************************************************************************)
PyInt(n) == [t |-> "int", n |-> n]
PyBool(b) == [t |-> "bool", b |-> b]
PyFloat(x) == [t |-> "float", x |-> x]
PyList(xs) == [t |-> "list", items |-> xs]
\* a dict is the sequence of its entries in insertion order
Entry(key, value) == [key |-> key, value |-> value]
PyDict(entries) == [t |-> "dict", entries |-> entries]
\* a key the dict does not hold
Missing == [t |-> "missing", v |-> <<>>]

\* key in d
HasKey(d, key) == \E k \in 1..Len(d.entries) : d.entries[k].key = key

\* d.get(key, default)
DictGet(d, key, default) ==
    IF HasKey(d, key) THEN d.entries[CHOOSE k \in 1..Len(d.entries) : d.entries[k].key = key].value
    ELSE default

\* isinstance(x, int): bool is a subclass of int
IsInt(x) == x.t \in {"int", "bool"}
IntOf(x) == IF x.t = "bool" THEN (IF x.b THEN 1 ELSE 0) ELSE x.n

\* bool(x)
Truthy(x) ==
    CASE x.t = "none" -> FALSE
      [] x.t = "bool" -> x.b
      [] x.t = "int" -> x.n # 0
      [] x.t = "float" -> x.x.n # 0
      [] x.t = "str" -> x.v # <<>>
      [] x.t = "list" -> x.items # <<>>
      [] x.t = "dict" -> x.entries # <<>>

\* f"{x}"
Format(x) ==
    CASE x.t = "int" -> IntText(x.n)
      [] x.t = "str" -> x.v
      [] x.t = "bool" -> IF x.b THEN <<"True">> ELSE <<"False">>
      [] x.t = "none" -> <<"None">>
      [] OTHER -> <<"<", x.t, ">">>

\* the configuration dictionary: config.get(key) and config.get(key, default)
ConfigGet(config, key) == IF config.entries[key] = Missing THEN NoneValue ELSE config.entries[key]
ConfigGetOr(config, key, default) == IF config.entries[key] = Missing THEN default ELSE config.entries[key]

(***************************************************************************)
(* validate_config                                                         *)
(***************************************************************************)
ValueError(msg) == [raised |-> TRUE, value |-> Err("ValueError"), msg |-> msg]
Passed == Returned(NoneValue)

\* a mutant: the range check is left out
year_in_range_any(y) == IsInt(y)

\* isinstance(y, int) and 2000 <= y <= 2030
year_in_range(y) == IsInt(y) /\ 2000 <= IntOf(y) /\ IntOf(y) <= 2030

validate_years(ys) ==
    IF ys.t = "none" THEN ValueError("Years must be specified")
    ELSE IF ys.t # "list" \/ Len(ys.items) = 0 THEN ValueError("Years must be a non-empty list")
    ELSE IF ~\A k \in 1..Len(ys.items) : year_in_range(ys.items[k])
    THEN ValueError("Years must be integers between 2000 and 2030")
    ELSE Passed

valid_forms == {Str(<<"AS">>), Str(<<"OÜ">>)}

validate_legal_forms(legal_forms) ==
    IF legal_forms.t = "none" THEN Passed
    ELSE IF legal_forms.t # "list" THEN ValueError("Legal forms must be a list")
    ELSE IF ~\A k \in 1..Len(legal_forms.items) : legal_forms.items[k] \in valid_forms
    THEN ValueError("Legal forms must be from valid_forms")
    ELSE Passed

valid_steps == {Str(<<"industry">>), Str(<<"age">>), Str(<<"emtak">>), Str(<<"ownership">>)}

validate_skip_steps(skip_steps) ==
    IF skip_steps.t = "none" THEN Passed
    ELSE IF skip_steps.t # "list" THEN ValueError("Skip steps must be a list")
    ELSE IF \E k \in 1..Len(skip_steps.items) : skip_steps.items[k] \notin valid_steps
    THEN ValueError("Invalid skip steps")
    ELSE Passed

validate_pipeline_mode(use_dataframe_pipeline) ==
    IF use_dataframe_pipeline.t \notin {"none", "bool"}
    THEN ValueError("use_dataframe_pipeline must be a boolean")
    ELSE Passed

\* the first exception of a loop whose iterations give outcomes
FirstRaised(outcomes) ==
    IF \E k \in 1..Len(outcomes) : outcomes[k].raised
    THEN outcomes[CHOOSE k \in 1..Len(outcomes) :
                      outcomes[k].raised /\ \A j \in 1..(k - 1) : ~outcomes[j].raised]
    ELSE Passed

valid_formula_types ==
    {"ebitda_margin", "roe", "roa", "asset_turnover", "employee_efficiency", "cash_ratio",
     "current_ratio", "debt_to_equity", "labour_ratio", "revenue_growth", "revenue_cagr"}

\* _validate_standard_formulas: one entry
validate_standard_formula(formula_type, config_val) ==
    IF formula_type \notin valid_formula_types
    THEN ValueError("Invalid standard formula type")
    ELSE IF formula_type = "revenue_growth"
    THEN IF config_val.t # "dict" \/ ~HasKey(config_val, "year_pairs")
         THEN ValueError("must have 'year_pairs' specified")
         ELSE IF DictGet(config_val, "year_pairs", Missing).t # "list"
         THEN ValueError("year_pairs must be a list")
         ELSE IF \E k \in 1..Len(DictGet(config_val, "year_pairs", Missing).items) :
                     LET pair == DictGet(config_val, "year_pairs", Missing).items[k]
                     IN  pair.t # "list" \/ Len(pair.items) # 2
         THEN ValueError("year_pairs must contain lists of 2 years each")
         ELSE Passed
    ELSE IF formula_type = "revenue_cagr"
    THEN IF config_val.t # "dict" THEN ValueError("must be a dictionary")
         ELSE IF ~HasKey(config_val, "start_year") \/ ~HasKey(config_val, "end_year")
         THEN ValueError("must have 'start_year' and 'end_year'")
         ELSE Passed
    ELSE IF config_val.t # "dict" \/ ~HasKey(config_val, "years")
    THEN ValueError("must have 'years' specified")
    ELSE IF DictGet(config_val, "years", Missing).t # "list"
    THEN ValueError("years must be a list")
    ELSE Passed

validate_standard_formulas(standard_formulas) ==
    FirstRaised([k \in 1..Len(standard_formulas.entries) |->
        validate_standard_formula(standard_formulas.entries[k].key, standard_formulas.entries[k].value)])

\* isinstance(x, str) and x
NonEmptyStr(x) == x.t = "str" /\ x.v # <<>>

validate_custom_formulas(custom_formulas) ==
    FirstRaised([k \in 1..Len(custom_formulas.entries) |->
        IF ~NonEmptyStr(custom_formulas.entries[k].key)
        THEN ValueError("Custom formula names must be non-empty strings")
        ELSE IF ~NonEmptyStr(custom_formulas.entries[k].value)
        THEN ValueError("Custom formula expressions must be non-empty strings")
        ELSE Passed])

\* f"{formula_type}_{year}", f"revenue_growth_{from_year}_to_{to_year}",
\* f"revenue_cagr_{start_year}_to_{end_year}" for values of any type
NameOf(prefix, year) == <<prefix, "_">> \o Format(year)
SpanNameOf(prefix, from_year, to_year) ==
    <<prefix, "_">> \o Format(from_year) \o <<"_", "to", "_">> \o Format(to_year)

\* a mutant: the CAGR name is collected whatever its years are
cagr_name_checked_always(start_year, end_year) == TRUE

\* if start_year and end_year
cagr_name_checked(start_year, end_year) == Truthy(start_year) /\ Truthy(end_year)

\* _get_generated_formula_names: the names of one entry
generated_names(formula_type, config_val) ==
    IF formula_type = "revenue_growth"
    THEN LET pairs == DictGet(config_val, "year_pairs", PyList(<<>>)).items
         IN  {SpanNameOf("revenue_growth", pairs[k].items[1], pairs[k].items[2]) : k \in 1..Len(pairs)}
    ELSE IF formula_type = "revenue_cagr"
    THEN LET start_year == DictGet(config_val, "start_year", NoneValue)
             end_year == DictGet(config_val, "end_year", NoneValue)
         IN  IF cagr_name_checked(start_year, end_year)
             THEN {SpanNameOf("revenue_cagr", start_year, end_year)}
             ELSE {}
    ELSE LET use_averages == DictGet(config_val, "use_averages", PyBool(TRUE))
             ys == DictGet(config_val, "years", PyList(<<>>)).items
         IN  {NameOf(IF formula_type \in AveragingFamilies
                     THEN FamilySuffix(formula_type,
                                       IF ~Truthy(use_averages) THEN "_single" ELSE "")
                     ELSE formula_type,
                     ys[k]) : k \in 1..Len(ys)}

get_generated_formula_names(standard_formulas) ==
    UNION {generated_names(standard_formulas.entries[k].key, standard_formulas.entries[k].value) :
               k \in 1..Len(standard_formulas.entries)}

\* _validate_formulas
validate_formulas_config(config) ==
    LET standard_formulas == ConfigGetOr(config, "standard_formulas", PyDict(<<>>))
        custom_formulas == ConfigGetOr(config, "custom_formulas", PyDict(<<>>))
    IN  IF standard_formulas.t # "dict"
        THEN ValueError("Standard formulas must be a dictionary")
        ELSE IF custom_formulas.t # "dict"
        THEN ValueError("Custom formulas must be a dictionary")
        ELSE IF validate_standard_formulas(standard_formulas).raised
        THEN validate_standard_formulas(standard_formulas)
        ELSE IF validate_custom_formulas(custom_formulas).raised
        THEN validate_custom_formulas(custom_formulas)
        ELSE IF \E k \in 1..Len(custom_formulas.entries) :
                    custom_formulas.entries[k].key.v \in get_generated_formula_names(standard_formulas)
        THEN ValueError("Overlapping formula names between standard and custom")
        ELSE Passed

\* float(points) raises, or gives a negative number
BadPoints(points) ==
    CASE points.t \in {"int", "bool"} -> IntOf(points) < 0
      [] points.t = "str" -> points.v = <<>> \/ \E k \in 1..Len(points.v) : ~IsDigit(points.v[k])
      [] OTHER -> TRUE

\* validate_scoring_config: a threshold adds an error
threshold_error(threshold) ==
    IF threshold.t # "dict" THEN TRUE
    ELSE IF ~HasKey(threshold, "points") THEN TRUE
    ELSE \/ HasKey(threshold, "min") = HasKey(threshold, "max")
         \/ BadPoints(DictGet(threshold, "points", Missing))

\* validate_scoring_config: a metric adds an error
metric_error(metric_config) ==
    IF metric_config.t # "dict" THEN TRUE
    ELSE IF ~HasKey(metric_config, "thresholds") THEN TRUE
    ELSE LET ths == DictGet(metric_config, "thresholds", Missing)
         IN  IF ths.t # "list" \/ Len(ths.items) = 0 THEN TRUE
             ELSE \E k \in 1..Len(ths.items) : threshold_error(ths.items[k])

\* _validate_scoring_config: config.items() of a value that is no dict raises
\* AttributeError
validate_scoring(scoring_config) ==
    IF scoring_config.t = "none" THEN Passed
    ELSE IF scoring_config.t # "dict" THEN Raised("AttributeError")
    ELSE IF \E k \in 1..Len(scoring_config.entries) : metric_error(scoring_config.entries[k].value)
    THEN ValueError("Scoring config validation errors")
    ELSE Passed

validate_financial_filters(financial_filters) ==
    IF financial_filters.t = "none" THEN Passed
    ELSE IF financial_filters.t # "list" THEN ValueError("Financial filters must be a list")
    ELSE FirstRaised([k \in 1..Len(financial_filters.items) |->
             IF financial_filters.items[k].t # "dict" THEN ValueError("Filter must be a dictionary")
             ELSE IF ~HasKey(financial_filters.items[k], "column")
             THEN ValueError("Filter must have 'column' specified")
             ELSE Passed])

validate_ownership_filters(ownership_filters) ==
    IF ownership_filters.t \notin {"none", "dict"}
    THEN ValueError("Ownership filters must be a dictionary")
    ELSE Passed

\* the checks of validate_config, in the order they run
Validators == <<"years", "legal_forms", "skip_steps", "use_dataframe_pipeline", "formulas",
                "scoring_config", "financial_filters", "ownership_filters">>

Validate(step, config) ==
    CASE step = "years" -> validate_years(ConfigGet(config, "years"))
      [] step = "legal_forms" -> validate_legal_forms(ConfigGet(config, "legal_forms"))
      [] step = "skip_steps" -> validate_skip_steps(ConfigGet(config, "skip_steps"))
      [] step = "use_dataframe_pipeline" ->
             validate_pipeline_mode(ConfigGet(config, "use_dataframe_pipeline"))
      [] step = "formulas" -> validate_formulas_config(config)
      [] step = "scoring_config" -> validate_scoring(ConfigGet(config, "scoring_config"))
      [] step = "financial_filters" ->
             validate_financial_filters(ConfigGet(config, "financial_filters"))
      [] step = "ownership_filters" ->
             validate_ownership_filters(ConfigGet(config, "ownership_filters"))

\* validate_config as one call
validate_config(config) ==
    IF config.t # "dict" THEN ValueError("Config must be a dictionary")
    ELSE FirstRaised([k \in 1..Len(Validators) |-> Validate(Validators[k], config)])

\* _get_customized_standard_formulas: the formulas of one entry, for years
\* that are integers; revenue_cagr subtracts its years
customized_formulas(formula_type, config_val) ==
    IF formula_type = "revenue_growth"
    THEN LET pairs == DictGet(config_val, "year_pairs", PyList(<<>>)).items
         IN  [k \in 1..Len(pairs) |->
                 Item(SpanNameOf("revenue_growth", pairs[k].items[1], pairs[k].items[2]),
                      revenue_growth(pairs[k].items[1].n, pairs[k].items[2].n))]
    ELSE IF formula_type = "revenue_cagr"
    THEN LET start_year == DictGet(config_val, "start_year", NoneValue)
             end_year == DictGet(config_val, "end_year", NoneValue)
         IN  <<Item(SpanNameOf("revenue_cagr", start_year, end_year),
                    revenue_cagr(start_year.n, end_year.n))>>
    ELSE LET use_averages == Truthy(DictGet(config_val, "use_averages", PyBool(TRUE)))
             ys == DictGet(config_val, "years", PyList(<<>>)).items
         IN  [k \in 1..Len(ys) |->
                 Item(NameOf(IF formula_type \in AveragingFamilies
                             THEN FamilySuffix(formula_type, suffix(use_averages))
                             ELSE formula_type,
                             ys[k]),
                      CASE formula_type \in AveragingFamilies ->
                               Generator(formula_type, ys[k].n, binary(use_averages))
                        [] formula_type = "ebitda_margin" -> ebitda_margin(ys[k].n)
                        [] formula_type = "cash_ratio" -> cash_ratio(ys[k].n)
                        [] formula_type = "current_ratio" -> current_ratio(ys[k].n)
                        [] formula_type = "debt_to_equity" -> debt_to_equity(ys[k].n)
                        [] formula_type = "labour_ratio" -> labour_ratio(ys[k].n))]

get_customized_standard_formulas(standard_config) ==
    DictUpdate(<<>>, Concat([k \in 1..Len(standard_config.entries) |->
        customized_formulas(standard_config.entries[k].key, standard_config.entries[k].value)]))

(***************************************************************************)
(* Specification SpecConfig: one call of validate_config                   *)
(***************************************************************************)
MaxConfigYears == 2     \* the longest list of years of a generated configuration

ConfigKeys == {"years", "legal_forms", "skip_steps", "use_dataframe_pipeline",
               "standard_formulas", "custom_formulas", "scoring_config",
               "financial_filters", "ownership_filters",
               "sort_column", "top_n", "save_final_output", "cleanup_intermediates"}

\* the configuration with the given keys, the other keys left out
Config(fields) ==
    PyDict([key \in ConfigKeys |-> IF key \in DOMAIN fields THEN fields[key] ELSE Missing])

Text2023 == <<"2", "0", "2", "3">>

YearItems == {PyInt(1999), PyInt(2000), PyInt(2030), PyInt(2031), Str(Text2023), PyBool(TRUE)}

YearsPool2 ==
    {Missing, NoneValue, PyInt(2023)} \cup {PyList(ys) : ys \in SeqsUpTo(YearItems, MaxConfigYears)}

LegalFormsPool ==
    { Missing, Str(<<"AS">>), PyList(<<>>), PyList(<<Str(<<"AS">>), Str(<<"OÜ">>)>>),
      PyList(<<Str(<<"AS">>), Str(<<"MTÜ">>)>>) }

SkipStepsPool ==
    { Missing, NoneValue, Str(<<"age">>),
      PyList(<<Str(<<"industry">>), Str(<<"age">>), Str(<<"emtak">>), Str(<<"ownership">>)>>),
      PyList(<<Str(<<"age">>), Str(<<"names">>)>>) }

YearsOf(ys) == PyDict(<<Entry("years", PyList(ys))>>)

StandardPool ==
    { Missing, PyDict(<<>>), PyList(<<>>),
      PyDict(<<Entry("roe", YearsOf(<<PyInt(2023)>>))>>),
      PyDict(<<Entry("roe", PyDict(<<Entry("years", PyList(<<PyInt(2023)>>)),
                                    Entry("use_averages", PyBool(FALSE))>>))>>),
      PyDict(<<Entry("ebitda_margin", YearsOf(<<PyInt(2023), PyInt(2022)>>)),
               Entry("roe", YearsOf(<<PyInt(2023)>>))>>),
      PyDict(<<Entry("revenue_growth",
                     PyDict(<<Entry("year_pairs",
                                    PyList(<<PyList(<<PyInt(2022), PyInt(2023)>>)>>))>>))>>),
      PyDict(<<Entry("revenue_cagr", PyDict(<<Entry("start_year", PyInt(2021)),
                                             Entry("end_year", PyInt(2023))>>))>>),
      PyDict(<<Entry("revenue_cagr", PyDict(<<Entry("start_year", PyInt(0)),
                                             Entry("end_year", PyInt(2023))>>))>>),
      PyDict(<<Entry("margin", YearsOf(<<PyInt(2023)>>))>>),
      PyDict(<<Entry("roe", PyDict(<<>>))>>) }

CustomOf(name) == PyDict(<<Entry(Str(name), Str(F_x2))>>)

CustomPool ==
    { Missing,
      CustomOf(NameYear("roe", 2023)), CustomOf(NameYear("roe_single", 2023)),
      CustomOf(NameYear("ebitda_margin", 2022)),
      CustomOf(GrowthName(2022, 2023)), CustomOf(CagrName(2021, 2023)),
      CustomOf(CagrName(0, 2023)), CustomOf(RatioName(1)),
      PyDict(<<Entry(Str(RatioName(1)), Str(F_x2)), Entry(Str(NameYear("roe", 2023)), Str(F_div))>>),
      CustomOf(<<>>),
      PyDict(<<Entry(Str(RatioName(1)), NoneValue)>>) }

ThresholdOf(entries) ==
    PyDict(<<Entry("metric", PyDict(<<Entry("thresholds", PyList(<<PyDict(entries)>>))>>))>>)

ScoringPool ==
    { Missing,
      ThresholdOf(<<Entry("min", PyFloat(Fifth)), Entry("points", PyInt(2))>>),
      ThresholdOf(<<Entry("min", PyFloat(Fifth)), Entry("points", PyInt(-1))>>),
      ThresholdOf(<<Entry("min", PyFloat(Fifth)), Entry("max", PyFloat(Half)),
                    Entry("points", PyInt(2))>>),
      PyList(<<>>) }

FiltersPool ==
    { Missing,
      PyList(<<PyDict(<<Entry("column", Str(RatioName(1))), Entry("min", PyInt(0))>>)>>),
      PyList(<<PyDict(<<Entry("min", PyInt(0))>>)>>) }

\* configurations that vary years, legal forms, skip steps and the mode
ConfigOfLists(ys, lf, ss, md, cf, sc) ==
    Config([years |-> ys, legal_forms |-> lf, skip_steps |-> ss, use_dataframe_pipeline |-> md,
            standard_formulas |-> PyDict(<<Entry("roe", YearsOf(<<PyInt(2023)>>))>>),
            custom_formulas |-> cf, scoring_config |-> sc])

\* configurations with valid years that vary the rest
ConfigOfRest(ss, md, sf, cf, sc, ff, ow) ==
    Config([years |-> PyList(<<PyInt(2030), PyInt(2000)>>), skip_steps |-> ss,
            use_dataframe_pipeline |-> md, standard_formulas |-> sf, custom_formulas |-> cf,
            scoring_config |-> sc, financial_filters |-> ff, ownership_filters |-> ow])

InitConfig ==
    /\ pc = "validate_config"
    /\ \/ call = [config |-> PyList(<<>>)]
       \/ \E ys \in YearsPool2, lf \in LegalFormsPool, ss \in SkipStepsPool,
             md \in {Missing, PyBool(FALSE), PyInt(1)},
             cf \in {Missing, CustomOf(NameYear("roe", 2023))},
             sc \in {Missing, PyList(<<>>)} :
              call = [config |-> ConfigOfLists(ys, lf, ss, md, cf, sc)]
       \/ \E ss \in {Missing, PyList(<<Str(<<"age">>)>>)}, md \in {Missing, PyBool(TRUE)},
             sf \in StandardPool, cf \in CustomPool, sc \in ScoringPool,
             ff \in FiltersPool, ow \in {Missing, PyList(<<>>)} :
              call = [config |-> ConfigOfRest(ss, md, sf, cf, sc, ff, ow)]
    /\ idx = Unused /\ result = Unused /\ data = Unused
    /\ years = Unused /\ formulas = Unused
    /\ CfUnused /\ VfUnused /\ LdUnused /\ ScUnused /\ PlUnused

\* if not isinstance(config, dict): raise
VC_NotDict ==
    /\ pc = "validate_config"
    /\ call.config.t # "dict"
    /\ result' = ValueError("Config must be a dictionary")
    /\ pc' = "vc_done"
    /\ UNCHANGED <<call, idx, data, years, formulas, cfVars, vfVars, ldVars, scVars, plVars>>

VC_Dict ==
    /\ pc = "validate_config"
    /\ call.config.t = "dict"
    /\ idx' = 1
    /\ pc' = "vc_checks"
    /\ UNCHANGED <<call, result, data, years, formulas, cfVars, vfVars, ldVars, scVars, plVars>>

\* _validate_years(config.get('years')): it raises, or the next validator is called
VC_Years ==
    /\ pc = "vc_checks" /\ idx <= Len(Validators)
    /\ Validators[idx] = "years"
    /\ IF Validate("years", call.config).raised
       THEN /\ result' = Validate("years", call.config)
            /\ pc' = "vc_done"
       ELSE /\ idx' = idx + 1
            /\ UNCHANGED <<pc, result>>
    /\ Validate("years", call.config).raised => UNCHANGED idx
    /\ UNCHANGED <<call, data, years, formulas, cfVars, vfVars, ldVars, scVars, plVars>>

\* _validate_legal_forms(config.get('legal_forms')): it raises, or the next validator is called
VC_LegalForms ==
    /\ pc = "vc_checks" /\ idx <= Len(Validators)
    /\ Validators[idx] = "legal_forms"
    /\ IF Validate("legal_forms", call.config).raised
       THEN /\ result' = Validate("legal_forms", call.config)
            /\ pc' = "vc_done"
       ELSE /\ idx' = idx + 1
            /\ UNCHANGED <<pc, result>>
    /\ Validate("legal_forms", call.config).raised => UNCHANGED idx
    /\ UNCHANGED <<call, data, years, formulas, cfVars, vfVars, ldVars, scVars, plVars>>

\* _validate_skip_steps(config.get('skip_steps')): it raises, or the next validator is called
VC_SkipSteps ==
    /\ pc = "vc_checks" /\ idx <= Len(Validators)
    /\ Validators[idx] = "skip_steps"
    /\ IF Validate("skip_steps", call.config).raised
       THEN /\ result' = Validate("skip_steps", call.config)
            /\ pc' = "vc_done"
       ELSE /\ idx' = idx + 1
            /\ UNCHANGED <<pc, result>>
    /\ Validate("skip_steps", call.config).raised => UNCHANGED idx
    /\ UNCHANGED <<call, data, years, formulas, cfVars, vfVars, ldVars, scVars, plVars>>

\* _validate_pipeline_mode(config.get('use_dataframe_pipeline')): it raises, or the next validator is called
VC_PipelineMode ==
    /\ pc = "vc_checks" /\ idx <= Len(Validators)
    /\ Validators[idx] = "use_dataframe_pipeline"
    /\ IF Validate("use_dataframe_pipeline", call.config).raised
       THEN /\ result' = Validate("use_dataframe_pipeline", call.config)
            /\ pc' = "vc_done"
       ELSE /\ idx' = idx + 1
            /\ UNCHANGED <<pc, result>>
    /\ Validate("use_dataframe_pipeline", call.config).raised => UNCHANGED idx
    /\ UNCHANGED <<call, data, years, formulas, cfVars, vfVars, ldVars, scVars, plVars>>

\* _validate_formulas(config): it raises, or the next validator is called
VC_Formulas ==
    /\ pc = "vc_checks" /\ idx <= Len(Validators)
    /\ Validators[idx] = "formulas"
    /\ IF Validate("formulas", call.config).raised
       THEN /\ result' = Validate("formulas", call.config)
            /\ pc' = "vc_done"
       ELSE /\ idx' = idx + 1
            /\ UNCHANGED <<pc, result>>
    /\ Validate("formulas", call.config).raised => UNCHANGED idx
    /\ UNCHANGED <<call, data, years, formulas, cfVars, vfVars, ldVars, scVars, plVars>>

\* _validate_scoring_config(config.get('scoring_config')): it raises, or the next validator is called
VC_ScoringConfig ==
    /\ pc = "vc_checks" /\ idx <= Len(Validators)
    /\ Validators[idx] = "scoring_config"
    /\ IF Validate("scoring_config", call.config).raised
       THEN /\ result' = Validate("scoring_config", call.config)
            /\ pc' = "vc_done"
       ELSE /\ idx' = idx + 1
            /\ UNCHANGED <<pc, result>>
    /\ Validate("scoring_config", call.config).raised => UNCHANGED idx
    /\ UNCHANGED <<call, data, years, formulas, cfVars, vfVars, ldVars, scVars, plVars>>

\* _validate_financial_filters(config.get('financial_filters')): it raises, or the next validator is called
VC_FinancialFilters ==
    /\ pc = "vc_checks" /\ idx <= Len(Validators)
    /\ Validators[idx] = "financial_filters"
    /\ IF Validate("financial_filters", call.config).raised
       THEN /\ result' = Validate("financial_filters", call.config)
            /\ pc' = "vc_done"
       ELSE /\ idx' = idx + 1
            /\ UNCHANGED <<pc, result>>
    /\ Validate("financial_filters", call.config).raised => UNCHANGED idx
    /\ UNCHANGED <<call, data, years, formulas, cfVars, vfVars, ldVars, scVars, plVars>>

\* _validate_ownership_filters(config.get('ownership_filters')): it raises, or the next validator is called
VC_OwnershipFilters ==
    /\ pc = "vc_checks" /\ idx <= Len(Validators)
    /\ Validators[idx] = "ownership_filters"
    /\ IF Validate("ownership_filters", call.config).raised
       THEN /\ result' = Validate("ownership_filters", call.config)
            /\ pc' = "vc_done"
       ELSE /\ idx' = idx + 1
            /\ UNCHANGED <<pc, result>>
    /\ Validate("ownership_filters", call.config).raised => UNCHANGED idx
    /\ UNCHANGED <<call, data, years, formulas, cfVars, vfVars, ldVars, scVars, plVars>>

\* every validator has returned
VC_Return ==
    /\ pc = "vc_checks" /\ idx > Len(Validators)
    /\ result' = Passed
    /\ pc' = "vc_done"
    /\ UNCHANGED <<call, idx, data, years, formulas, cfVars, vfVars, ldVars, scVars, plVars>>

NextConfig ==
    \/ VC_NotDict
    \/ VC_Dict
    \/ VC_Years
    \/ VC_LegalForms
    \/ VC_SkipSteps
    \/ VC_PipelineMode
    \/ VC_Formulas
    \/ VC_ScoringConfig
    \/ VC_FinancialFilters
    \/ VC_OwnershipFilters
    \/ VC_Return

SpecConfig == InitConfig /\ [][NextConfig]_vars

\* years is a non-empty list of integers within [2000, 2030]
YearsAreValid(config) ==
    /\ config.entries.years.t = "list"
    /\ config.entries.years.items # <<>>
    /\ \A k \in 1..Len(config.entries.years.items) :
           /\ config.entries.years.items[k].t = "int"
           /\ config.entries.years.items[k].n \in 2000..2030

\* a list under key holds an entry outside allowed
HoldsOther(config, key, allowed) ==
    /\ config.entries[key].t = "list"
    /\ \E k \in 1..Len(config.entries[key].items) :
           config.entries[key].items[k] \notin {Str(<<a>>) : a \in allowed}

\* C11: validate_config accepts a configuration only if years is a non-empty
\* list of integers within [2000, 2030], every legal form is AS or OÜ and
\* every skip step is industry, age, emtak or ownership; a configuration
\* that breaks one of these makes it raise ValueError.
ConfigAcceptedOnlyIfValid ==
    (pc = "vc_done" /\ call.config.t = "dict") =>
        LET violated == \/ ~YearsAreValid(call.config)
                        \/ HoldsOther(call.config, "legal_forms", {"AS", "OÜ"})
                        \/ HoldsOther(call.config, "skip_steps",
                                      {"industry", "age", "emtak", "ownership"})
        IN  /\ result = Passed => ~violated
            /\ violated => result.raised /\ result.value = Err("ValueError")

\* a configuration with boundary years, both legal forms and all four skip
\* steps has been accepted
ConfigAcceptedWitness ==
    /\ pc = "vc_done"
    /\ result = Passed
    /\ call.config.entries.years = PyList(<<PyInt(2000), PyInt(2030)>>)
    /\ call.config.entries.legal_forms = PyList(<<Str(<<"AS">>), Str(<<"OÜ">>)>>)
    /\ call.config.entries.skip_steps.t = "list"
    /\ Len(call.config.entries.skip_steps.items) = 4

\* C12: no configuration in which a name that the standard_formulas
\* configuration generates is also a key of custom_formulas is accepted:
\* validate_config raises the name-collision error for it.
OverlappingNamesRejected ==
    (pc = "vc_done" /\ result = Passed) =>
        LET standard_formulas == ConfigGetOr(call.config, "standard_formulas", PyDict(<<>>))
            custom_formulas == ConfigGetOr(call.config, "custom_formulas", PyDict(<<>>))
        IN  \A k \in 1..Len(custom_formulas.entries) :
                custom_formulas.entries[k].key.v
                    \notin Names(get_customized_standard_formulas(standard_formulas))

\* C26: for every accepted configuration the names
\* _get_generated_formula_names derives from standard_formulas are the keys
\* of the dictionary _get_customized_standard_formulas builds from it, for
\* the per-year families, revenue_growth and revenue_cagr alike.
GeneratedNamesAgree ==
    (pc = "vc_done" /\ result = Passed) =>
        LET standard_formulas == ConfigGetOr(call.config, "standard_formulas", PyDict(<<>>))
        IN  get_generated_formula_names(standard_formulas)
                = Names(get_customized_standard_formulas(standard_formulas))

(***************************************************************************)
(* The screening pipeline: files, tables and the stage functions           *)
(*                                                                         *)
(* A table is known by the run that made it and by the stages it has been  *)
(* through; a source file is there or it is not.  The names of the         *)
(* intermediate files carry the years of the run, so a run meets the       *)
(* intermediate files of an earlier run with the same years.               *)
(***************************************************************************)
FileTable(run, stages) == [t |-> "table", run |-> run, stages |-> stages]
SourceFile == [t |-> "source"]
NoFile == [t |-> "nofile"]
\* a stage that was called with arguments it does not take has read nothing
NotRead == [t |-> "notread"]

SourceFiles == {"general_data.csv", "revenues.csv", "legal_data.csv", "emtak_2025.csv",
                "shareholders.json"}

\* screening_temp_<stage>_<years[-1]>_<years[0]>.csv
TempFiles == {"screening_temp_merged", "screening_temp_standard_ratios",
              "screening_temp_all_ratios", "screening_temp_industry", "screening_temp_age",
              "screening_temp_emtak", "screening_temp_ownership", "screening_temp_scored",
              "screening_temp_filtered"}

\* the default output_file, screening_results_<years[-1]>_<years[0]>.csv
OutputFile == "screening_results"

FileNames == SourceFiles \cup TempFiles \cup {OutputFile}

\* safe_read_csv: None for a file that is not there
safe_read_csv(fs, filename) == IF fs[filename] = NoFile THEN NoneValue ELSE fs[filename]

\* validate_file_exists
validate_file_exists(fs, filename) == fs[filename] # NoFile

\* safe_write_csv
safe_write_csv(fs, df, filename) == [fs EXCEPT ![filename] = df]

\* cleanup_temp_files(pattern="screening_temp_*.csv"): max_age_hours is 24,
\* and a younger file is kept
cleanup_temp_files(fs) ==
    [f \in FileNames |->
        IF f \in TempFiles /\ fs[f].t = "table" /\ fs[f].run = "day_before" THEN NoFile ELSE fs[f]]

\* the table after a stage
Through(df, stage) == FileTable(df.run, Append(df.stages, stage))

IsTable(x) == x.t = "table"

\* what a stage function did: what it read, what it returned, the files after it
Outcome(read, returned, fs) == [read |-> read, returned |-> returned, files |-> fs]

\* a call with a keyword argument the function does not take
TypeErrorOutcome(fs) == Outcome(NotRead, Raised("TypeError"), fs)

\* the stage functions that take input_file, output_file and a secondary
\* file (add_industry_classifications, add_company_age, add_emtak_descriptions,
\* add_ownership_data, add_company_names): None if the input cannot be read;
\* the table as it was read, and nothing written, if the secondary file is
\* missing; otherwise the table is written to output_file and returned
stage_with_secondary(fs, stage, input_file, output_file, secondary_file) ==
    LET companies_df == safe_read_csv(fs, input_file)
    IN  IF companies_df = NoneValue THEN Outcome(NoneValue, Returned(NoneValue), fs)
        ELSE IF ~validate_file_exists(fs, secondary_file)
             THEN Outcome(companies_df, Returned(companies_df), fs)
        ELSE Outcome(companies_df, Returned(Through(companies_df, stage)),
                     safe_write_csv(fs, Through(companies_df, stage), output_file))

add_industry_classifications(fs, input_file, output_file) ==
    stage_with_secondary(fs, "industry", input_file, output_file, "revenues.csv")

\* add_company_age takes input_data too
add_company_age(fs, input_file, output_file) ==
    stage_with_secondary(fs, "age", input_file, output_file, "legal_data.csv")

add_company_age_df(fs, input_data) ==
    IF ~validate_file_exists(fs, "legal_data.csv")
    THEN Outcome(input_data, Returned(input_data), fs)
    ELSE Outcome(input_data, Returned(Through(input_data, "age")), fs)

add_emtak_descriptions(fs, input_file, output_file) ==
    stage_with_secondary(fs, "emtak", input_file, output_file, "emtak_2025.csv")

add_ownership_data(fs, input_file, output_file) ==
    stage_with_secondary(fs, "ownership", input_file, output_file, "shareholders.json")

add_company_names(fs, input_file, output_file) ==
    stage_with_secondary(fs, "names", input_file, output_file, "legal_data.csv")

\* score_companies: None if the input cannot be read
score_companies(fs, input_file, output_file) ==
    LET companies_df == safe_read_csv(fs, input_file)
    IN  IF companies_df = NoneValue THEN Outcome(NoneValue, Returned(NoneValue), fs)
        ELSE Outcome(companies_df, Returned(Through(companies_df, "score")),
                     safe_write_csv(fs, Through(companies_df, "score"), output_file))

\* the columns a table has got from its stages: score from the scoring, a
\* custom formula's name from the ratio calculation
HasColumn(df, column, custom_formulas) ==
    \/ column = Str(<<"score">>) /\ \E k \in 1..Len(df.stages) : df.stages[k] = "score"
    \/ /\ \E k \in 1..Len(df.stages) : df.stages[k] = "ratios"
       /\ \E k \in 1..Len(custom_formulas.entries) : custom_formulas.entries[k].key = column

\* filter_and_rank without filters: None if the input cannot be read or the
\* sort column is not in the table
filter_and_rank(fs, input_file, output_file, sort_column, custom_formulas) ==
    LET companies_df == safe_read_csv(fs, input_file)
    IN  IF companies_df = NoneValue THEN Outcome(NoneValue, Returned(NoneValue), fs)
        ELSE IF ~HasColumn(companies_df, sort_column, custom_formulas)
             THEN Outcome(companies_df, Returned(NoneValue), fs)
        ELSE Outcome(companies_df, Returned(Through(companies_df, "filter")),
                     safe_write_csv(fs, Through(companies_df, "filter"), output_file))

filter_and_rank_df(fs, input_data, sort_column, custom_formulas) ==
    IF ~HasColumn(input_data, sort_column, custom_formulas)
    THEN Outcome(input_data, Returned(NoneValue), fs)
    ELSE Outcome(input_data, Returned(Through(input_data, "filter")), fs)

\* merge_multiple_years with require_all_years: None without general_data.csv;
\* the merged table is written to output_file unless return_dataframe
merge_multiple_years_file(fs, output_file, return_dataframe) ==
    IF safe_read_csv(fs, "general_data.csv") = NoneValue
    THEN Outcome(NoneValue, Returned(NoneValue), fs)
    ELSE Outcome(fs["general_data.csv"], Returned(FileTable("this", <<"merge">>)),
                 IF return_dataframe THEN fs
                 ELSE safe_write_csv(fs, FileTable("this", <<"merge">>), output_file))

(***************************************************************************)
(* Specification SpecPipeline: one call of run_company_screening           *)
(***************************************************************************)
\* _merge_config_and_kwargs: config.copy() if config else {}, then update(kwargs)
merge_config_and_kwargs(config, kwargs) ==
    PyDict([key \in ConfigKeys |->
        IF kwargs.entries[key] # Missing THEN kwargs.entries[key]
        ELSE IF config = NoneValue THEN Missing
        ELSE config.entries[key]])

final_config == merge_config_and_kwargs(call.config, call.kwargs)

use_dataframe_pipeline == Truthy(ConfigGetOr(final_config, "use_dataframe_pipeline", PyBool(FALSE)))

\* 'industry' not in skip_steps
Skipped(stage) ==
    LET skip_steps == ConfigGetOr(final_config, "skip_steps", PyList(<<>>))
    IN  \E k \in 1..Len(skip_steps.items) : skip_steps.items[k] = Str(<<stage>>)

\* one stage call: the stage, the file (or input_data) it was given, what it
\* read and what it returned
StageCall(stage, input, outcome) ==
    [stage |-> stage, input |-> input, read |-> outcome.read, returned |-> outcome.returned]

\* the exception leaves run_company_screening
Raise(exception) ==
    /\ result' = exception
    /\ pc' = "rcs_done"

\* run_company_screening without the call of validate_config
RCS_NoValidate ==
    /\ pc = "run_company_screening"
    /\ pc' = "merge"
    /\ UNCHANGED <<call, data, result, idx, years, formulas, cfVars, vfVars, ldVars, scVars,
                   plVars>>

\* final_config = _merge_config_and_kwargs(config, kwargs); validate_config(final_config)
RCS_Validate ==
    /\ pc = "run_company_screening"
    /\ IF validate_config(final_config).raised
       THEN Raise(validate_config(final_config))
       ELSE pc' = "merge" /\ UNCHANGED result
    /\ UNCHANGED <<call, data, idx, years, formulas, cfVars, vfVars, ldVars, scVars, plVars>>

\* _merge_multi_year_data
PL_merge_multi_year_data ==
    /\ pc = "merge" /\ ~use_dataframe_pipeline
    /\ LET temp_file == "screening_temp_merged"
           merged == merge_multiple_years_file(files, temp_file, FALSE)
       IN  /\ stage_log' = Append(stage_log, StageCall("merge", "general_data.csv", merged))
           /\ files' = merged.files
           /\ IF merged.returned.value = NoneValue
              THEN Raise(Raised("RuntimeError")) /\ UNCHANGED current_file
              ELSE pc' = "ratios" /\ current_file' = temp_file /\ UNCHANGED result
    /\ UNCHANGED <<call, data, idx, years, formulas, cfVars, vfVars, ldVars, scVars>>

\* _merge_multi_year_data_df
PL_merge_multi_year_data_df ==
    /\ pc = "merge" /\ use_dataframe_pipeline
    /\ LET merged == merge_multiple_years_file(files, "", TRUE)
       IN  /\ stage_log' = Append(stage_log, StageCall("merge", "general_data.csv", merged))
           /\ IF merged.returned.value = NoneValue
              THEN Raise(Raised("RuntimeError")) /\ UNCHANGED data
              ELSE pc' = "ratios" /\ data' = merged.returned.value /\ UNCHANGED result
    /\ UNCHANGED <<call, idx, years, formulas, cfVars, vfVars, ldVars, scVars, files, current_file>>

\* _calculate_financial_ratios: calculate_ratios takes no use_standard_formulas,
\* so the call raises TypeError; the custom formulas are read from
\* current_file, applied and written to temp_file_2
PL_calculate_financial_ratios ==
    /\ pc = "ratios" /\ ~use_dataframe_pipeline
    /\ LET temp_file_2 == "screening_temp_all_ratios"
           standard_formulas_config == ConfigGetOr(final_config, "standard_formulas", PyDict(<<>>))
           custom_formulas == ConfigGetOr(final_config, "custom_formulas", PyDict(<<>>))
           current_df == safe_read_csv(files, current_file)
       IN  IF Truthy(standard_formulas_config) \/ ~Truthy(custom_formulas)
           THEN /\ stage_log' = Append(stage_log,
                                       StageCall("ratios", current_file, TypeErrorOutcome(files)))
                /\ Raise(Raised("TypeError"))
                /\ UNCHANGED <<files, current_file>>
           ELSE IF current_df = NoneValue
           THEN /\ stage_log' = Append(stage_log,
                    StageCall("ratios", current_file,
                              Outcome(NoneValue, Raised("RuntimeError"), files)))
                /\ Raise(Raised("RuntimeError"))
                /\ UNCHANGED <<files, current_file>>
           ELSE /\ stage_log' = Append(stage_log,
                    StageCall("ratios", current_file,
                              Outcome(current_df, Returned(Through(current_df, "ratios")), files)))
                /\ files' = safe_write_csv(files, Through(current_df, "ratios"), temp_file_2)
                /\ current_file' = temp_file_2
                /\ pc' = "industry"
                /\ UNCHANGED result
    /\ UNCHANGED <<call, data, idx, years, formulas, cfVars, vfVars, ldVars, scVars>>

\* _calculate_financial_ratios_df: calculate_ratios takes no input_data
PL_calculate_financial_ratios_df ==
    /\ pc = "ratios" /\ use_dataframe_pipeline
    /\ LET standard_formulas_config == ConfigGetOr(final_config, "standard_formulas", PyDict(<<>>))
           custom_formulas == ConfigGetOr(final_config, "custom_formulas", PyDict(<<>>))
       IN  IF Truthy(standard_formulas_config) \/ ~Truthy(custom_formulas)
           THEN /\ stage_log' = Append(stage_log,
                                       StageCall("ratios", "input_data", TypeErrorOutcome(files)))
                /\ Raise(Raised("TypeError"))
                /\ UNCHANGED data
           ELSE /\ stage_log' = Append(stage_log,
                    StageCall("ratios", "input_data",
                              Outcome(data, Returned(Through(data, "ratios")), files)))
                /\ data' = Through(data, "ratios")
                /\ pc' = "industry"
                /\ UNCHANGED result
    /\ UNCHANGED <<call, idx, years, formulas, cfVars, vfVars, ldVars, scVars, files, current_file>>

\* _add_enrichment_data: if 'industry' not in skip_steps
PL_add_industry ==
    /\ pc = "industry" /\ ~use_dataframe_pipeline
    /\ pc' = "age"
    /\ LET temp_file == "screening_temp_industry"
           result_df == add_industry_classifications(files, current_file, temp_file)
       IN  IF Skipped("industry") THEN UNCHANGED <<files, current_file, stage_log>>
           ELSE /\ stage_log' = Append(stage_log, StageCall("industry", current_file, result_df))
                /\ files' = result_df.files
                /\ current_file' = IF result_df.returned.value # NoneValue THEN temp_file
                                   ELSE current_file
    /\ UNCHANGED <<call, data, result, idx, years, formulas, cfVars, vfVars, ldVars, scVars>>

\* _add_enrichment_data: if 'age' not in skip_steps
PL_add_age ==
    /\ pc = "age" /\ ~use_dataframe_pipeline
    /\ pc' = "emtak"
    /\ LET temp_file == "screening_temp_age"
           result_df == add_company_age(files, current_file, temp_file)
       IN  IF Skipped("age") THEN UNCHANGED <<files, current_file, stage_log>>
           ELSE /\ stage_log' = Append(stage_log, StageCall("age", current_file, result_df))
                /\ files' = result_df.files
                /\ current_file' = IF result_df.returned.value # NoneValue THEN temp_file
                                   ELSE current_file
    /\ UNCHANGED <<call, data, result, idx, years, formulas, cfVars, vfVars, ldVars, scVars>>

\* _add_enrichment_data: if 'emtak' not in skip_steps
PL_add_emtak ==
    /\ pc = "emtak" /\ ~use_dataframe_pipeline
    /\ pc' = "ownership"
    /\ LET temp_file == "screening_temp_emtak"
           result_df == add_emtak_descriptions(files, current_file, temp_file)
       IN  IF Skipped("emtak") THEN UNCHANGED <<files, current_file, stage_log>>
           ELSE /\ stage_log' = Append(stage_log, StageCall("emtak", current_file, result_df))
                /\ files' = result_df.files
                /\ current_file' = IF result_df.returned.value # NoneValue THEN temp_file
                                   ELSE current_file
    /\ UNCHANGED <<call, data, result, idx, years, formulas, cfVars, vfVars, ldVars, scVars>>

\* _add_enrichment_data: if 'ownership' not in skip_steps
PL_add_ownership ==
    /\ pc = "ownership" /\ ~use_dataframe_pipeline
    /\ pc' = "score"
    /\ LET temp_file == "screening_temp_ownership"
           result_df == add_ownership_data(files, current_file, temp_file)
       IN  IF Skipped("ownership") THEN UNCHANGED <<files, current_file, stage_log>>
           ELSE /\ stage_log' = Append(stage_log, StageCall("ownership", current_file, result_df))
                /\ files' = result_df.files
                /\ current_file' = IF result_df.returned.value # NoneValue THEN temp_file
                                   ELSE current_file
    /\ UNCHANGED <<call, data, result, idx, years, formulas, cfVars, vfVars, ldVars, scVars>>

\* _score_and_filter_companies: if scoring_config
PL_score ==
    /\ pc = "score" /\ ~use_dataframe_pipeline
    /\ pc' = "filter"
    /\ LET temp_file == "screening_temp_scored"
           scored_df == score_companies(files, current_file, temp_file)
       IN  IF ~Truthy(ConfigGet(final_config, "scoring_config"))
           THEN UNCHANGED <<files, current_file, stage_log>>
           ELSE /\ stage_log' = Append(stage_log, StageCall("score", current_file, scored_df))
                /\ files' = scored_df.files
                /\ current_file' = IF scored_df.returned.value # NoneValue THEN temp_file
                                   ELSE current_file
    /\ UNCHANGED <<call, data, result, idx, years, formulas, cfVars, vfVars, ldVars, scVars>>

\* _score_and_filter_companies: if financial_filters or sort_column or top_n
PL_filter ==
    /\ pc = "filter" /\ ~use_dataframe_pipeline
    /\ pc' = "finalize"
    /\ LET temp_file == "screening_temp_filtered"
           sort_column == ConfigGetOr(final_config, "sort_column", Str(<<"score">>))
           custom_formulas == ConfigGetOr(final_config, "custom_formulas", PyDict(<<>>))
           filtered_df == filter_and_rank(files, current_file, temp_file, sort_column,
                                          custom_formulas)
       IN  IF ~(\/ Truthy(ConfigGet(final_config, "financial_filters"))
                \/ Truthy(sort_column)
                \/ Truthy(ConfigGet(final_config, "top_n")))
           THEN UNCHANGED <<files, current_file, stage_log>>
           ELSE /\ stage_log' = Append(stage_log, StageCall("filter", current_file, filtered_df))
                /\ files' = filtered_df.files
                /\ current_file' = IF filtered_df.returned.value # NoneValue THEN temp_file
                                   ELSE current_file
    /\ UNCHANGED <<call, data, result, idx, years, formulas, cfVars, vfVars, ldVars, scVars>>

\* _finalize_results: add_company_names, or the table under input_file
PL_finalize_results ==
    /\ pc = "finalize" /\ ~use_dataframe_pipeline
    /\ LET named == add_company_names(files, current_file, OutputFile)
           final_df == IF named.returned.value # NoneValue THEN named.returned.value
                       ELSE safe_read_csv(files, current_file)
       IN  /\ stage_log' = Append(stage_log, StageCall("names", current_file, named))
           /\ files' = named.files
           /\ IF final_df = NoneValue
              THEN Raise(Raised("RuntimeError")) /\ UNCHANGED data
              ELSE pc' = "save" /\ data' = final_df /\ UNCHANGED result
    /\ UNCHANGED <<call, idx, years, formulas, cfVars, vfVars, ldVars, scVars, current_file>>

\* _add_enrichment_data_df: add_industry_classifications takes no input_data
PL_add_industry_df ==
    /\ pc = "industry" /\ use_dataframe_pipeline
    /\ IF Skipped("industry") THEN pc' = "age" /\ UNCHANGED <<result, stage_log>>
       ELSE /\ stage_log' = Append(stage_log,
                                   StageCall("industry", "input_data", TypeErrorOutcome(files)))
            /\ Raise(Raised("TypeError"))
    /\ UNCHANGED <<call, data, idx, years, formulas, cfVars, vfVars, ldVars, scVars,
                   files, current_file>>

\* _add_enrichment_data_df: add_company_age(input_data=current_df, return_dataframe=True)
PL_add_age_df ==
    /\ pc = "age" /\ use_dataframe_pipeline
    /\ pc' = "emtak"
    /\ IF Skipped("age") THEN UNCHANGED <<data, stage_log>>
       ELSE /\ stage_log' = Append(stage_log,
                                   StageCall("age", "input_data", add_company_age_df(files, data)))
            /\ data' = add_company_age_df(files, data).returned.value
    /\ UNCHANGED <<call, result, idx, years, formulas, cfVars, vfVars, ldVars, scVars,
                   files, current_file>>

\* _add_enrichment_data_df: add_emtak_descriptions takes no input_data
PL_add_emtak_df ==
    /\ pc = "emtak" /\ use_dataframe_pipeline
    /\ IF Skipped("emtak") THEN pc' = "ownership" /\ UNCHANGED <<result, stage_log>>
       ELSE /\ stage_log' = Append(stage_log,
                                   StageCall("emtak", "input_data", TypeErrorOutcome(files)))
            /\ Raise(Raised("TypeError"))
    /\ UNCHANGED <<call, data, idx, years, formulas, cfVars, vfVars, ldVars, scVars,
                   files, current_file>>

\* _add_enrichment_data_df: add_ownership_data takes no input_data
PL_add_ownership_df ==
    /\ pc = "ownership" /\ use_dataframe_pipeline
    /\ IF Skipped("ownership") THEN pc' = "score" /\ UNCHANGED <<result, stage_log>>
       ELSE /\ stage_log' = Append(stage_log,
                                   StageCall("ownership", "input_data", TypeErrorOutcome(files)))
            /\ Raise(Raised("TypeError"))
    /\ UNCHANGED <<call, data, idx, years, formulas, cfVars, vfVars, ldVars, scVars,
                   files, current_file>>

\* _score_and_filter_companies_df: score_companies takes no input_data
PL_score_df ==
    /\ pc = "score" /\ use_dataframe_pipeline
    /\ IF ~Truthy(ConfigGet(final_config, "scoring_config"))
       THEN pc' = "filter" /\ UNCHANGED <<result, stage_log>>
       ELSE /\ stage_log' = Append(stage_log,
                                   StageCall("score", "input_data", TypeErrorOutcome(files)))
            /\ Raise(Raised("TypeError"))
    /\ UNCHANGED <<call, data, idx, years, formulas, cfVars, vfVars, ldVars, scVars,
                   files, current_file>>

\* _score_and_filter_companies_df: current_df = filter_and_rank(input_data=current_df, ...)
PL_filter_df ==
    /\ pc = "filter" /\ use_dataframe_pipeline
    /\ pc' = "finalize"
    /\ LET sort_column == ConfigGetOr(final_config, "sort_column", Str(<<"score">>))
           custom_formulas == ConfigGetOr(final_config, "custom_formulas", PyDict(<<>>))
           filtered_df == filter_and_rank_df(files, data, sort_column, custom_formulas)
       IN  IF ~(\/ Truthy(ConfigGet(final_config, "financial_filters"))
                \/ Truthy(sort_column)
                \/ Truthy(ConfigGet(final_config, "top_n")))
           THEN UNCHANGED <<data, stage_log>>
           ELSE /\ stage_log' = Append(stage_log, StageCall("filter", "input_data", filtered_df))
                /\ data' = filtered_df.returned.value
    /\ UNCHANGED <<call, result, idx, years, formulas, cfVars, vfVars, ldVars, scVars,
                   files, current_file>>

\* _finalize_results_df: add_company_names takes no input_data
PL_finalize_results_df ==
    /\ pc = "finalize" /\ use_dataframe_pipeline
    /\ stage_log' = Append(stage_log, StageCall("names", "input_data", TypeErrorOutcome(files)))
    /\ Raise(Raised("TypeError"))
    /\ UNCHANGED <<call, data, idx, years, formulas, cfVars, vfVars, ldVars, scVars,
                   files, current_file>>

\* run_company_screening after the pipeline: the final output is saved, the
\* intermediate files are cleaned up, result_df is returned
RCS_Return ==
    /\ pc = "save"
    /\ LET saved == IF Truthy(ConfigGetOr(final_config, "save_final_output", PyBool(TRUE)))
                    THEN safe_write_csv(files, data, OutputFile)
                    ELSE files
       IN  files' = IF /\ Truthy(ConfigGetOr(final_config, "cleanup_intermediates", PyBool(TRUE)))
                       /\ ~use_dataframe_pipeline
                    THEN cleanup_temp_files(saved)
                    ELSE saved
    /\ result' = Returned(data)
    /\ pc' = "rcs_done"
    /\ UNCHANGED <<call, data, idx, years, formulas, cfVars, vfVars, ldVars, scVars,
                   current_file, stage_log>>

\* the stages an intermediate file's table has been through
StagesOf(filename) ==
    CASE filename = "screening_temp_merged" -> <<"merge">>
      [] filename = "screening_temp_standard_ratios" -> <<"merge", "ratios">>
      [] filename = "screening_temp_all_ratios" -> <<"merge", "ratios">>
      [] filename = "screening_temp_industry" -> <<"merge", "ratios", "industry">>
      [] filename = "screening_temp_age" -> <<"merge", "ratios", "industry", "age">>
      [] filename = "screening_temp_emtak" -> <<"merge", "ratios", "industry", "age", "emtak">>
      [] filename = "screening_temp_ownership" ->
             <<"merge", "ratios", "industry", "age", "emtak", "ownership">>
      [] filename = "screening_temp_scored" ->
             <<"merge", "ratios", "industry", "age", "emtak", "ownership", "score">>
      [] filename = "screening_temp_filtered" ->
             <<"merge", "ratios", "industry", "age", "emtak", "ownership", "score", "filter">>
      [] OTHER ->
             <<"merge", "ratios", "industry", "age", "emtak", "ownership", "score", "filter",
               "names">>

\* the files under base_path before the run: the source files that are
\* there, and nothing else (left = "none") or what an earlier run with the
\* same years left, within the last 24 hours or before
FilesBefore(present, left) ==
    [f \in FileNames |->
        IF f \in SourceFiles THEN (IF f \in present THEN SourceFile ELSE NoFile)
        ELSE IF left = "none" THEN NoFile
        ELSE FileTable(left, StagesOf(f))]

\* the source files that are there: all of them, or all but one, or none
PresentPool == {SourceFiles \ missing : missing \in {{}} \cup {{f} : f \in SourceFiles}} \cup {{}}

ValidThreshold == ThresholdOf(<<Entry("min", PyFloat(Fifth)), Entry("points", PyInt(2))>>)
MalformedThreshold == ThresholdOf(<<Entry("min", PyFloat(Fifth)), Entry("points", PyInt(-1))>>)

Years2 == PyList(<<PyInt(2023), PyInt(2022)>>)

SkipLists ==
    { Missing,
      PyList(<<Str(<<"industry">>)>>),
      PyList(<<Str(<<"industry">>), Str(<<"emtak">>), Str(<<"ownership">>)>>),
      PyList(<<Str(<<"industry">>), Str(<<"age">>), Str(<<"emtak">>), Str(<<"ownership">>)>>) }

StandardRoe == PyDict(<<Entry("roe", YearsOf(<<PyInt(2023)>>))>>)

\* configurations validate_config accepts
ScreeningConfig(ss, md, sf, cf, sc, so, keep) ==
    Config([years |-> Years2, skip_steps |-> ss, use_dataframe_pipeline |-> md,
            standard_formulas |-> sf, custom_formulas |-> cf, scoring_config |-> sc,
            sort_column |-> so,
            save_final_output |-> IF keep THEN PyBool(FALSE) ELSE Missing,
            cleanup_intermediates |-> IF keep THEN PyBool(FALSE) ELSE Missing])

\* configurations validate_config rejects: a year out of range, an unknown
\* legal form, an unknown skip step, a name collision, a malformed threshold
RejectedConfigs ==
    { Config([years |-> PyList(<<PyInt(2023), PyInt(1999)>>)]),
      Config([years |-> Years2, legal_forms |-> PyList(<<Str(<<"AS">>), Str(<<"MTÜ">>)>>)]),
      Config([years |-> Years2, skip_steps |-> PyList(<<Str(<<"age">>), Str(<<"names">>)>>)]),
      Config([years |-> Years2, standard_formulas |-> StandardRoe,
              custom_formulas |-> CustomOf(NameYear("roe", 2023))]),
      Config([years |-> Years2, custom_formulas |-> CustomOf(RatioName(1)),
              scoring_config |-> MalformedThreshold]) }

\* keyword arguments: none, years that are valid, years that are not
KwargsPool ==
    { Config(<<>>), Config([years |-> Years2]), Config([years |-> PyList(<<PyInt(2031)>>)]) }

InitPipeline ==
    /\ pc = "run_company_screening"
    /\ \/ \E ss \in SkipLists, md \in {Missing, PyBool(TRUE)},
             sf \in {Missing, StandardRoe}, cf \in {Missing, CustomOf(RatioName(1))},
             sc \in {Missing, ValidThreshold}, so \in {Missing, Str(RatioName(1)), Str(<<>>)},
             keep \in BOOLEAN, kw \in KwargsPool :
              call = [config |-> ScreeningConfig(ss, md, sf, cf, sc, so, keep), kwargs |-> kw]
       \/ \E c \in RejectedConfigs \cup {NoneValue}, kw \in KwargsPool,
             md \in {Missing, PyBool(TRUE)} :
              call = [config |-> c,
                      kwargs |-> PyDict([kw.entries EXCEPT !["use_dataframe_pipeline"] = md])]
    /\ \E present \in PresentPool, left \in {"none", "earlier", "day_before"} :
           files = FilesBefore(present, left)
    /\ current_file = Unused /\ stage_log = <<>>
    /\ data = Unused /\ result = Unused /\ idx = Unused
    /\ years = Unused /\ formulas = Unused
    /\ CfUnused /\ VfUnused /\ LdUnused /\ ScUnused

NextPipeline ==
    \/ RCS_Validate
    \/ PL_merge_multi_year_data
    \/ PL_merge_multi_year_data_df
    \/ PL_calculate_financial_ratios
    \/ PL_calculate_financial_ratios_df
    \/ PL_add_industry
    \/ PL_add_industry_df
    \/ PL_add_age
    \/ PL_add_age_df
    \/ PL_add_emtak
    \/ PL_add_emtak_df
    \/ PL_add_ownership
    \/ PL_add_ownership_df
    \/ PL_score
    \/ PL_score_df
    \/ PL_filter
    \/ PL_filter_df
    \/ PL_finalize_results
    \/ PL_finalize_results_df
    \/ RCS_Return

SpecPipeline == InitPipeline /\ [][NextPipeline]_vars

\* the stages in the order of the pipeline
StageOrder == <<"merge", "ratios", "industry", "age", "emtak", "ownership", "score", "filter",
                "names">>

Rank(stage) == CHOOSE k \in 1..Len(StageOrder) : StageOrder[k] = stage

\* the table the latest stage call before the k-th that returned a table returned
LatestOutput(k) ==
    LET returned == {j \in 1..(k - 1) : IsTable(stage_log[j].returned.value)}
    IN  stage_log[CHOOSE j \in returned : \A i \in returned : i <= j].returned.value

\* C16: run_company_screening validates the configuration merged from config
\* and the keyword arguments before any stage: while validate_config raises
\* for it no stage has been called, no file has been read or written by the
\* run, and the run ends with the exception of validate_config.
ValidatedBeforeAnyStage ==
    validate_config(final_config).raised =>
        /\ stage_log = <<>>
        /\ current_file = Unused /\ data = Unused
        /\ \A f \in FileNames : IsTable(files[f]) => files[f].run # "this"
        /\ pc \in {"run_company_screening", "rcs_done"}
        /\ pc = "rcs_done" => result = validate_config(final_config)

\* a configuration that is valid without the keyword arguments has been
\* rejected for the years given as a keyword argument, with every source
\* file there and the intermediate files of an earlier run around
ValidatedBeforeWitness ==
    /\ pc = "rcs_done"
    /\ result.raised /\ result.value = Err("ValueError")
    /\ call.config # NoneValue
    /\ ~validate_config(merge_config_and_kwargs(call.config, Config(<<>>))).raised
    /\ call.kwargs.entries.years = PyList(<<PyInt(2031)>>)
    /\ files = FilesBefore(SourceFiles, "earlier")

\* C15: in both modes the stages are called in the order merge, ratios,
\* industry, age, emtak, ownership, score, filter, names, a skipped
\* enrichment stage is not called, and every stage that reads its input
\* reads the table the latest stage before it returned.
StagesChained ==
    /\ \A j, k \in 1..Len(stage_log) :
           j < k => Rank(stage_log[j].stage) < Rank(stage_log[k].stage)
    /\ \A k \in 1..Len(stage_log) :
           stage_log[k].stage \in {"industry", "age", "emtak", "ownership"}
               => ~Skipped(stage_log[k].stage)
    /\ \A k \in 2..Len(stage_log) :
           stage_log[k].read # NotRead => stage_log[k].read = LatestOutput(k)

\* the secondary input of an enrichment stage
SecondaryFile(stage) ==
    CASE stage = "industry" -> "revenues.csv"
      [] stage = "age" -> "legal_data.csv"
      [] stage = "emtak" -> "emtak_2025.csv"
      [] stage = "ownership" -> "shareholders.json"

\* C17: a run in file mode whose merge and ratio calculation succeeded
\* completes whatever secondary inputs are missing, and the table it
\* returns is the table of this run taken through exactly the enrichment
\* stages that were not skipped and had their secondary input.
MissingSecondaryTolerated ==
    (/\ pc = "rcs_done"
     /\ ~use_dataframe_pipeline
     /\ \E k \in 1..Len(stage_log) :
            stage_log[k].stage = "ratios" /\ IsTable(stage_log[k].returned.value))
        => /\ ~result.raised
           /\ result.value.run = "this"
           /\ \A stage \in {"industry", "age", "emtak", "ownership"} :
                  (\E k \in 1..Len(result.value.stages) : result.value.stages[k] = stage)
                      <=> (~Skipped(stage) /\ validate_file_exists(files, SecondaryFile(stage)))

(***************************************************************************)
(* Specification SpecMerge: merge_multiple_years over general_data.csv,    *)
(* then the per-year merge of the financial data (merge_financial_data).   *)
(* A row of general_data.csv is a report: report_id, registrikood,         *)
(* aruandeaast, õiguslik vorm, staatus.  A row of the working table holds   *)
(* company_code and, per merged year, the columns of that year.            *)
(***************************************************************************)
MaxGeneralRows == 3     \* the most rows of general_data.csv

Frame(rows) == [t |-> "frame", rows |-> rows]

\* filter_companies: the active companies of the year with a requested legal
\* form, renamed; None without the file or without such a company
filter_companies(general_data, year, legal_forms) ==
    IF ~general_data.given THEN NoneValue
    ELSE LET filtered_companies ==
                 SelectRows(general_data.v,
                            [k \in 1..Len(general_data.v) |->
                                /\ general_data.v[k].aruandeaast = year
                                /\ \E j \in 1..Len(legal_forms) :
                                       legal_forms[j] = general_data.v[k].vorm
                                /\ general_data.v[k].staatus = "Registrisse kantud"])
         IN  IF filtered_companies = <<>> THEN NoneValue
             ELSE Frame([k \in 1..Len(filtered_companies) |->
                            [report_id |-> filtered_companies[k].report_id,
                             company_code |-> filtered_companies[k].registrikood,
                             year |-> filtered_companies[k].aruandeaast,
                             legal_form |-> filtered_companies[k].vorm]])

\* year_df.rename(columns={col: f"{col}_{year}"}): every column but
\* company_code becomes the year's column
year_columns(year_df, year) ==
    [k \in 1..Len(year_df.rows) |->
        [company_code |-> year_df.rows[k].company_code,
         report_id |-> (year :> year_df.rows[k].report_id),
         legal_form |-> (year :> year_df.rows[k].legal_form),
         financial |-> <<>>]]

\* one row of the merge of a left and a right row
merged_row(left, right) ==
    [company_code |-> left.company_code,
     report_id |-> left.report_id @@ right.report_id,
     legal_form |-> left.legal_form @@ right.legal_form,
     financial |-> left.financial]

\* pd.merge(left, right, on='company_code', how='inner'): every pair of a
\* left and a right row with the same company_code, in the order of the left
inner_merge(left, right) ==
    Concat([i \in 1..Len(left) |->
        LET matches == SelectRows(right, [k \in 1..Len(right) |->
                                             right[k].company_code = left[i].company_code])
        IN  [k \in 1..Len(matches) |-> merged_row(left[i], matches[k])]])

\* df[df['company_code'].isin(common_companies)]
isin(rows, common_companies) ==
    SelectRows(rows, [k \in 1..Len(rows) |-> rows[k].company_code \in common_companies])

\* for year in years[1:]: if year in year_dfs: merged_data = pd.merge(...)
RECURSIVE merge_years(_, _, _)
merge_years(merged_data, rest, year_dfs) ==
    IF rest = <<>> THEN merged_data
    ELSE merge_years(IF Head(rest) \in DOMAIN year_dfs
                     THEN inner_merge(merged_data, year_dfs[Head(rest)])
                     ELSE merged_data,
                     Tail(rest), year_dfs)

merge_multiple_years(general_data, ys, legal_forms, require_all_years) ==
    LET with_data == {k \in 1..Len(ys) : filter_companies(general_data, ys[k], legal_forms) # NoneValue}
        year_dfs == [y \in {ys[k] : k \in with_data} |->
                        year_columns(filter_companies(general_data, y, legal_forms), y)]
        codes(y) == {year_dfs[y][k].company_code : k \in 1..Len(year_dfs[y])}
        common_companies == {c \in codes(ys[1]) : \A y \in DOMAIN year_dfs : c \in codes(y)}
        common_dfs == IF require_all_years /\ Cardinality(DOMAIN year_dfs) > 1
                      THEN [y \in DOMAIN year_dfs |-> isin(year_dfs[y], common_companies)]
                      ELSE year_dfs
    IN  IF ys = <<>> THEN Returned(NoneValue)
        ELSE IF require_all_years /\ Cardinality(with_data) < Len(ys) THEN Returned(NoneValue)
        ELSE IF with_data = {} THEN Returned(NoneValue)
        ELSE IF ys[1] \notin DOMAIN year_dfs THEN Raised("KeyError")
        ELSE IF /\ require_all_years /\ Cardinality(DOMAIN year_dfs) > 1
                /\ common_companies = {}
             THEN Returned(NoneValue)
        ELSE Returned(Frame(merge_years(common_dfs[ys[1]], Tail(ys), common_dfs)))

\* pd.merge(result, financial_wide, left_on=report_id_col, right_on='report_id',
\* how='left'): a row without a match is kept, with no value
left_merge(rows, wide, year) ==
    Concat([i \in 1..Len(rows) |->
        LET ids == wide.cols[<<"report_id">>]
            matches == {k \in 1..Len(ids) : ids[k] = NumCell(Int2Num(rows[i].report_id[year]))}
            value(k) == IF NameYear(Revenue, year) \in DOMAIN wide.cols
                        THEN wide.cols[NameYear(Revenue, year)][k] ELSE NoneCell
        IN  IF matches = {}
            THEN <<[rows[i] EXCEPT !.financial = (year :> NoneCell) @@ @]>>
            ELSE [n \in 1..Cardinality(matches) |->
                     [rows[i] EXCEPT !.financial = (year :> value(Ascending(matches)[n])) @@ @]]])

\* a mutant: a year without its financial file empties the table
merge_financial_year_or_nothing(rows, year, financial_file) ==
    IF ~financial_file.given THEN <<>>
    ELSE left_merge(rows, financial_wide(financial_file.v, year), year)

\* merge_financial_data, one year: skipped without the year's report_id
\* column and without the year's financial file
merge_financial_year(rows, year, financial_file) ==
    IF rows # <<>> /\ year \notin DOMAIN rows[1].report_id THEN rows
    ELSE IF ~financial_file.given THEN rows
    ELSE left_merge(rows, financial_wide(financial_file.v, year), year)

\* convert_to_numeric(result, all_financial_columns, fill_value=1): the
\* item's columns of the years that are in the table
financial_to_numeric(rows) ==
    [k \in 1..Len(rows) |->
        [rows[k] EXCEPT !.financial =
            [y \in DOMAIN rows[k].financial |->
                NumCell(nan_to_num(to_numeric(rows[k].financial[y])))]]]

\* the reports of two companies over two years: active AS companies, an
\* association, a deleted company
GeneralRows ==
    [registrikood : {10, 11}, aruandeaast : {2022, 2023}, vorm : {"AS"},
     staatus : {"Registrisse kantud"}]
    \cup {[registrikood |-> 10, aruandeaast |-> 2023, vorm |-> "MTÜ",
           staatus |-> "Registrisse kantud"],
          [registrikood |-> 11, aruandeaast |-> 2023, vorm |-> "AS", staatus |-> "Kustutatud"]}

\* report_id is the key of general_data.csv: the row's position
WithReportIds(rows) ==
    [k \in 1..Len(rows) |->
        [report_id |-> k, registrikood |-> rows[k].registrikood,
         aruandeaast |-> rows[k].aruandeaast, vorm |-> rows[k].vorm,
         staatus |-> rows[k].staatus]]

MergeYearLists == {<<>>, <<2023>>, <<2023, 2022>>, <<2022, 2023>>}

FinancialRow(report_id, vaartus) ==
    [report_id |-> report_id, clean_elemendi_label |-> <<Revenue>>,
     vaartus |-> NumCell(Int2Num(vaartus)), is_consolidated |-> FALSE]

\* the rows of financials_{year}.csv after the filters of load_financial_data:
\* no file, one report, one report twice, several reports
FinancialFiles ==
    { Absent, Given(<<FinancialRow(1, 40)>>),
      Given(<<FinancialRow(1, 40), FinancialRow(1, 50)>>),
      Given(<<FinancialRow(1, 40), FinancialRow(2, 50), FinancialRow(3, 40)>>) }

InitMerge ==
    /\ pc = "merge_multiple_years"
    /\ \E ys \in MergeYearLists, require_all_years \in BOOLEAN :
           call = [years |-> ys, legal_forms |-> <<"AS", "OÜ">>,
                   require_all_years |-> require_all_years]
    /\ \/ data = Absent
       \/ \E rows \in SeqsUpTo(GeneralRows, MaxGeneralRows) : data = Given(WithReportIds(rows))
    /\ \E file \in FinancialFiles, earlier \in {Absent, Given(<<FinancialRow(2, 50)>>)} :
           financial_data = (2023 :> file) @@ (2022 :> earlier)
    /\ financial_items = <<<<Revenue>>>>
    /\ years = Unused /\ formulas = Unused
    /\ result = Unused /\ idx = Unused
    /\ CfUnused /\ VfUnused /\ ScUnused /\ PlUnused

\* merge_multiple_years returns or raises
MMY_Merge ==
    /\ pc = "merge_multiple_years"
    /\ result' = merge_multiple_years(data, call.years, call.legal_forms, call.require_all_years)
    /\ IF result'.raised \/ result'.value = NoneValue
       THEN pc' = "mmy_done" /\ UNCHANGED idx
       ELSE pc' = "merge_financial_data" /\ idx' = 1
    /\ UNCHANGED <<data, cfVars, crVars, vfVars, ldVars, scVars, plVars>>

\* merge_financial_data: for year in years
MFD_Year ==
    /\ pc = "merge_financial_data"
    /\ idx <= Len(call.years)
    /\ result' = Returned(Frame(merge_financial_year(result.value.rows, call.years[idx],
                                                     financial_data[call.years[idx]])))
    /\ idx' = idx + 1
    /\ UNCHANGED <<pc, data, cfVars, crVars, vfVars, ldVars, scVars, plVars>>

\* merge_financial_data: the financial columns made numeric, return result
MFD_Return ==
    /\ pc = "merge_financial_data"
    /\ idx > Len(call.years)
    /\ result' = Returned(Frame(financial_to_numeric(result.value.rows)))
    /\ pc' = "mfd_done"
    /\ UNCHANGED <<data, idx, cfVars, crVars, vfVars, ldVars, scVars, plVars>>

NextMerge ==
    \/ MMY_Merge
    \/ MFD_Year
    \/ MFD_Return

SpecMerge == InitMerge /\ [][NextMerge]_vars

\* no two rows of the table have the same company_code
UniqueCompanies(rows) ==
    \A j, k \in 1..Len(rows) : j # k => rows[j].company_code # rows[k].company_code

\* C18: the table merge_multiple_years returns has at most one row per
\* company_code, whatever general_data.csv holds (a company with several
\* reports within a year included), and the per-year merge of the financial
\* data leaves the number of rows of that table as it is.
OneRowPerCompany ==
    /\ (/\ pc = "mmy_done" \/ (pc = "merge_financial_data" /\ idx = 1)
        /\ ~result.raised
        /\ result.value # NoneValue)
           => UniqueCompanies(result.value.rows)
    /\ pc \in {"merge_financial_data", "mfd_done"}
           => Len(result.value.rows) =
                  Len(merge_multiple_years(data, call.years, call.legal_forms,
                                           call.require_all_years).value.rows)

\* the base table: what merge_multiple_years returned
BaseTable ==
    merge_multiple_years(data, call.years, call.legal_forms, call.require_all_years).value.rows

\* the columns of a row that the base table has
BaseColumns(row) ==
    [company_code |-> row.company_code, report_id |-> row.report_id,
     legal_form |-> row.legal_form]

\* merge_financial_data skips the year: the table has no report_id_{year}
\* column, or load_financial_data returns None
SkippedYear(rows, year) ==
    \/ rows # <<>> /\ year \notin DOMAIN rows[1].report_id
    \/ ~financial_data[year].given

\* the value of the year's revenue column for a report: the first value of
\* the report in the year's file, 1 without one
MergedValue(year, report_id) ==
    NumCell(nan_to_num(to_numeric(FirstValue(financial_data[year].v, report_id, <<Revenue>>))))

\* merge_financial_data does not raise, whatever years are skipped; a
\* returned table has the rows and the columns of the base table as they
\* were, and the revenue column of exactly the years that were not skipped
YearsMergedOrSkipped ==
    pc \in {"merge_financial_data", "mfd_done"} =>
        /\ ~result.raised
        /\ Len(result.value.rows) = Len(BaseTable)
        /\ \A k \in 1..Len(BaseTable) :
               /\ BaseColumns(result.value.rows[k]) = BaseColumns(BaseTable[k])
               /\ pc = "mfd_done" =>
                      \A n \in 1..Len(call.years) :
                          LET year == call.years[n]
                              row == result.value.rows[k]
                          IN  IF SkippedYear(BaseTable, year)
                              THEN year \notin DOMAIN row.financial
                              ELSE /\ year \in DOMAIN row.financial
                                   /\ row.financial[year] = MergedValue(year, row.report_id[year])

\* a step of the loop over a skipped year leaves the table as it is
SkippedYearKeepsTable ==
    (/\ pc = "merge_financial_data" /\ idx <= Len(call.years)
     /\ SkippedYear(result.value.rows, call.years[idx])
     /\ idx' = idx + 1)
        => result' = result

X_2023 == NameYear("X", 2023)
B_2023 == NameYear("B", 2023)

G_x2 == Q(X_2023) \o <<" ", "*", " ", "2">>                     \* "X_2023" * 2
G_div == Q(X_2023) \o <<" ", "/", " ">> \o Q(B_2023)            \* "X_2023" / "B_2023"
G_b == Q(B_2023) \o <<" ", "+", " ", "1">>                      \* "B_2023" + 1

\* references that hold _20 elsewhere than in a year suffix at the end
X_200 == <<"X", "_", "2", "0", "0">>                            \* X_200
X_2022_B_2023 == NameYear("X", 2022) \o <<"_">> \o B_2023        \* X_2022_B_2023
G_x200 == Q(X_200) \o <<" ", "*", " ", "2">>                    \* "X_200" * 2
G_xb == Q(X_2022_B_2023) \o <<" ", "+", " ", "1">>              \* "X_2022_B_2023" + 1

\* col.split('_20')[0] if '_20' in col, else col
base_col(col) ==
    LET hits == {i \in 1..Len(col) : StartsAt(col, i, <<"_", "2", "0">>)}
    IN  IF hits = {} THEN col
        ELSE SubSeq(col, 1, (CHOOSE i \in hits : \A j \in hits : i <= j) - 1)

\* the columns the formulas quote, in the order of the dictionary
all_formula_columns(formula_dict) ==
    Concat([k \in 1..Len(formula_dict) |-> extract_quoted_columns(formula_dict[k].expr)])

\* the set financial_items of the base names
inferred_items(formula_dict) ==
    {base_col(all_formula_columns(formula_dict)[k]) :
         k \in 1..Len(all_formula_columns(formula_dict))}

\* list(s): the elements of a set in some order
Orders(S) == {order \in [1..Cardinality(S) -> S] : \A x \in S : \E k \in DOMAIN order : order[k] = x}

\* the same dictionary with its entries in another order
Reordered(formula_dict) ==
    {[k \in 1..Len(formula_dict) |-> formula_dict[p[k]]] : p \in Permutations(1..Len(formula_dict))}

\* the per-year merge: the columns item_year of the requested items that the
\* year's financial file has, row by row
merge_requested(table, wide, items, ys) ==
    Table(table.nrows,
          MergeFn(table.cols,
                  [c \in {col \in DOMAIN wide.cols :
                              \E i \in 1..Len(items), y \in 1..Len(ys) :
                                  col = items[i] \o <<"_">> \o IntText(ys[y])} |-> wide.cols[c]]))

\* for item in financial_items: for year in years: if col in result.columns
financial_columns(table, items, ys) ==
    LET named == [n \in 1..(Len(items) * Len(ys)) |->
                     items[((n - 1) \div Len(ys)) + 1] \o <<"_">>
                         \o IntText(ys[((n - 1) % Len(ys)) + 1])]
    IN  SelectRows(named, [n \in 1..Len(named) |-> named[n] \in Columns(table)])

\* result[col] = pd.to_numeric(result[col], errors='coerce').fillna(1), column by column
RECURSIVE to_numeric_columns(_, _)
to_numeric_columns(table, cols) ==
    IF cols = <<>> THEN table
    ELSE to_numeric_columns(
             SetColumn(table, Head(cols),
                       [k \in 1..table.nrows |->
                           NumCell(nan_to_num(to_numeric(table.cols[Head(cols)][k])))]),
             Tail(cols))

\* for formula_name, formula_expr in formulas.items(): the column of the
\* result of create_formula, NaN if it raises
RECURSIVE formula_columns(_, _)
formula_columns(table, formula_dict) ==
    IF formula_dict = <<>> THEN table
    ELSE LET r == create_formula(Head(formula_dict).expr, table)
         IN  formula_columns(
                 SetColumn(table, Head(formula_dict).name,
                           IF ~r.raised /\ Assignable(r.value, RowCount(table))
                           THEN ToColumn(r.value, RowCount(table))
                           ELSE NaNColumn(RowCount(table))),
                 Tail(formula_dict))

\* the table calculate_ratios saves for an order of the items and of the formulas
ratios_table(table, wide, ys, items, formula_dict) ==
    LET merged == merge_requested(table, wide, items, ys)
    IN  formula_columns(to_numeric_columns(merged, financial_columns(merged, items, ys)),
                        formula_dict)

RatioExprs == {G_x2, G_div, G_b, F_chain, F_missing, G_x200, G_xb}

RatioDicts ==
    UNION {{[k \in 1..n |-> Item(RatioName(k), es[k])] : es \in [1..n -> RatioExprs]} :
               n \in 0..MaxFormulas}

\* the merged companies, and the pivoted financial file of 2023 row by row
CompanyTable(n) == Table(n, [c \in {<<"company_code">>} |-> [k \in 1..n |-> NumCell(Int2Num(k))]])
WideTable(xs, bs) == Table(Len(xs), [c \in {X_2023, B_2023} |-> IF c = X_2023 THEN xs ELSE bs])

InitRatios ==
    /\ pc = "cr_items"
    /\ \E formula_dict \in RatioDicts :
           /\ call = [fn |-> "calculate_ratios", formulas |-> formula_dict]
           /\ formulas = formula_dict
    /\ years = <<2023>>
    /\ \E n \in 1..MaxRows :
           /\ data = CompanyTable(n)
           /\ \E xs \in [1..n -> XCells], bs \in [1..n -> BCells] :
                  financial_data = WideTable(xs, bs)
    /\ financial_items = Unused
    /\ result = Unused /\ idx = Unused
    /\ CfUnused /\ VfUnused /\ ScUnused /\ PlUnused

\* financial_items = list(financial_items): the set in some order
CR_InferItems ==
    /\ pc = "cr_items"
    /\ \E order \in Orders(inferred_items(formulas)) : financial_items' = order
    /\ pc' = "cr_merge"
    /\ UNCHANGED <<data, result, idx, cfVars, crVars, vfVars, financial_data, scVars, plVars>>

\* the input is read and the financial data of the years is merged
CR_MergeFinancial ==
    /\ pc = "cr_merge"
    /\ result' = merge_requested(data, financial_data, financial_items, years)
    /\ pc' = "cr_numeric"
    /\ UNCHANGED <<data, idx, cfVars, crVars, vfVars, ldVars, scVars, plVars>>

\* the financial columns are made numeric, NaN replaced with 1
CR_ToNumeric ==
    /\ pc = "cr_numeric"
    /\ result' = to_numeric_columns(result, financial_columns(result, financial_items, years))
    /\ idx' = 1
    /\ pc' = "calculate_ratios"
    /\ UNCHANGED <<data, cfVars, crVars, vfVars, ldVars, scVars, plVars>>

NextRatios ==
    \/ CR_InferItems
    \/ CR_MergeFinancial
    \/ CR_ToNumeric
    \/ CR_Computed
    \/ CR_Error
    \/ CR_Save

SpecRatios == InitRatios /\ [][NextRatios]_vars

\* a reference without its year suffix _20xx at the end, if it ends in one
WithoutYearSuffix(col) ==
    IF /\ Len(col) >= 5
       /\ SubSeq(col, Len(col) - 4, Len(col) - 2) = <<"_", "2", "0">>
       /\ IsDigit(col[Len(col) - 1]) /\ IsDigit(col[Len(col)])
    THEN SubSeq(col, 1, Len(col) - 5)
    ELSE col

\* C22: the financial items calculate_ratios infers are the set of the
\* references of all formulas, each without the year suffix _20xx at its
\* end if it ends in one and unchanged otherwise, also for a reference that
\* holds _20 somewhere else.
ItemsLoseOnlyYearSuffix ==
    (pc # "cr_items" /\ financial_items # Unused) =>
        /\ {financial_items[k] : k \in 1..Len(financial_items)} =
               {WithoutYearSuffix(all_formula_columns(call.formulas)[k]) :
                    k \in 1..Len(all_formula_columns(call.formulas))}
        /\ \A j, k \in 1..Len(financial_items) :
               financial_items[j] = financial_items[k] => j = k

\* C24: the table a successful call of calculate_ratios saves and returns
\* has been flagged after the formulas were computed: it has the column
\* investment_vehicle, a boolean for every record.
SavedTableIsFlagged ==
    (pc = "done" /\ financial_items # Unused) =>
        /\ investment_vehicle \in Columns(result)
        /\ \A k \in 1..RowCount(result) :
               result.cols[investment_vehicle][k] \in {BoolCell(TRUE), BoolCell(FALSE)}

\* C19: the table calculate_ratios saves is the same for every order in
\* which the set of inferred financial items is listed and for every order
\* of the entries of the formula dictionary: the same columns with the same
\* values.
RatiosDeterministic ==
    (pc = "done" /\ financial_items # Unused) =>
        \A order \in Orders(inferred_items(call.formulas)) :
            \A formula_dict \in Reordered(call.formulas) :
                ratios_table(data, financial_data, years, order, formula_dict) = result

(***************************************************************************)
(* Specification SpecFilter: the end of the file pipeline,                 *)
(* _score_and_filter_companies and _finalize_results, on a table of        *)
(* records with the column ratio_1.  The configuration is given by the     *)
(* values of its keys; a key that is left out is Absent.                   *)
(***************************************************************************)
score == <<"score">>
company_name == <<"company_name">>

\* df[mask], every column
MaskTable(table, mask) ==
    Table(Cardinality({k \in 1..RowCount(table) : mask[k]}),
          [c \in Columns(table) |-> SelectRows(table.cols[c], mask)])

\* one filter of the loop of filter_and_rank: skipped if the table has no
\* such column, else df[df[column] >= min] and df[df[column] <= max]
apply_filter(companies_df, filter_dict) ==
    IF filter_dict.column \notin Columns(companies_df) THEN companies_df
    ELSE LET above == IF filter_dict.min.given
                      THEN MaskTable(companies_df,
                               [k \in 1..RowCount(companies_df) |->
                                   NumLe(filter_dict.min.v,
                                         companies_df.cols[filter_dict.column][k].x)])
                      ELSE companies_df
         IN  IF filter_dict.max.given
             THEN MaskTable(above,
                      [k \in 1..RowCount(above) |->
                          NumLe(above.cols[filter_dict.column][k].x, filter_dict.max.v)])
             ELSE above

\* the loop over filters: None as soon as a filter that was applied leaves
\* no company
RECURSIVE apply_filters(_, _)
apply_filters(companies_df, filters) ==
    IF filters = <<>> THEN companies_df
    ELSE LET filtered == apply_filter(companies_df, Head(filters))
         IN  IF Head(filters).column \in Columns(companies_df) /\ RowCount(filtered) = 0
             THEN NoneValue
             ELSE apply_filters(filtered, Tail(filters))

\* sort_values(by=sort_column, ascending=False): NaN last
sort_values(companies_df, sort_column) ==
    LET value(k) == companies_df.cols[sort_column][k].x
        order == StableSort([k \in 1..RowCount(companies_df) |-> k],
                            [j, k \in 1..RowCount(companies_df) |->
                                \/ NumLt(value(k), value(j))
                                \/ ~IsNaN(value(j)) /\ IsNaN(value(k))])
    IN  Table(RowCount(companies_df),
              [c \in Columns(companies_df) |->
                  [r \in 1..RowCount(companies_df) |-> companies_df.cols[c][order[r]]]])

\* filter_and_rank with filters: None if the input cannot be read, if a
\* filter leaves no company, or if the table has no sort column; else the
\* filtered table, sorted and cut to top_n, is written and returned
filter_and_rank_filters(fs, input_file, output_file, sort_column, filters, top_n) ==
    LET companies_df == safe_read_csv(fs, input_file)
        filtered == IF filters.given THEN apply_filters(companies_df, filters.v)
                    ELSE companies_df
        sorted == sort_values(filtered, sort_column)
        ranked == IF top_n.given /\ top_n.v > 0 THEN Head_n(sorted, top_n.v) ELSE sorted
    IN  IF companies_df = NoneValue THEN Outcome(NoneValue, Returned(NoneValue), fs)
        ELSE IF filtered = NoneValue THEN Outcome(companies_df, Returned(NoneValue), fs)
        ELSE IF sort_column \notin Columns(filtered)
             THEN Outcome(companies_df, Returned(NoneValue), fs)
        ELSE Outcome(companies_df, Returned(ranked), safe_write_csv(fs, ranked, output_file))

\* _calculate_metric_scores: the loop over the thresholds
RECURSIVE metric_scores(_, _, _)
metric_scores(sc, series, ts) ==
    IF ts = <<>> THEN sc
    ELSE metric_scores(ApplyThreshold(sc, series, Head(ts)), series, Tail(ts))

\* score_companies with the metric ratio_1: None if the input cannot be
\* read; the column score is 0 plus the points of the metric, if the table
\* has the metric's column
score_companies_metric(fs, input_file, output_file, metric_thresholds) ==
    LET companies_df == safe_read_csv(fs, input_file)
        series == companies_df.cols[RatioName(1)]
        points == IF RatioName(1) \in Columns(companies_df)
                  THEN metric_scores([k \in 1..RowCount(companies_df) |-> 0], series,
                                     sort_thresholds(metric_thresholds))
                  ELSE [k \in 1..RowCount(companies_df) |-> 0]
        scored == SetColumn(companies_df, score,
                            [k \in 1..RowCount(companies_df) |-> NumCell(Int2Num(points[k]))])
    IN  IF companies_df = NoneValue THEN Outcome(NoneValue, Returned(NoneValue), fs)
        ELSE Outcome(companies_df, Returned(scored), safe_write_csv(fs, scored, output_file))

\* add_company_names: None if the input cannot be read; the table as read,
\* nothing written, without legal_data.csv; else the column company_name
\* (legal_data.csv names company 1) is added, the table written and returned
add_company_names_column(fs, input_file, output_file) ==
    LET companies_df == safe_read_csv(fs, input_file)
        named == SetColumn(companies_df, company_name,
                     [k \in 1..RowCount(companies_df) |->
                         IF companies_df.cols[<<"company_code">>][k] = NumCell(Int2Num(1))
                         THEN StrCell(Int2Num(1)) ELSE NoneCell])
    IN  IF companies_df = NoneValue THEN Outcome(NoneValue, Returned(NoneValue), fs)
        ELSE IF ~validate_file_exists(fs, "legal_data.csv")
             THEN Outcome(companies_df, Returned(companies_df), fs)
        ELSE Outcome(companies_df, Returned(named), safe_write_csv(fs, named, output_file))

RatioCells == {NumCell(Frac(1, 20)), NumCell(Frac(1, 4)), NumCell(Half), NoneCell}

\* the table the enrichment stages left: company_code and ratio_1
RatioTables ==
    UNION {{Table(n, [c \in {<<"company_code">>, RatioName(1)} |->
                         IF c = RatioName(1) THEN rs
                         ELSE [k \in 1..n |-> NumCell(Int2Num(k))]]) :
                rs \in [1..n -> RatioCells]} : n \in 1..MaxRows}

Filter(column, min, max) == [column |-> column, min |-> min, max |-> max]

FinancialFilters ==
    { Absent,
      Given(<<Filter(RatioName(1), Given(Fifth), Absent)>>),
      Given(<<Filter(RatioName(1), Absent, Given(Frac(1, 10)))>>),
      Given(<<Filter(RatioName(2), Given(Fifth), Absent)>>),
      Given(<<Filter(RatioName(2), Given(Fifth), Absent),
              Filter(RatioName(1), Given(Fifth), Given(Frac(2, 5)))>>) }

FilterFiles == {"screening_temp_ownership", "screening_temp_scored",
                "screening_temp_filtered", OutputFile, "legal_data.csv"}

InitFilter ==
    /\ pc = "_score_and_filter_companies"
    /\ \E scoring_config \in {Absent, Given(<<MinThreshold(Fifth, 2)>>)},
          financial_filters \in FinancialFilters,
          sort_column \in {score, RatioName(1), <<>>},
          top_n \in {Absent, Given(1)} :
           call = [scoring_config |-> scoring_config, financial_filters |-> financial_filters,
                   sort_column |-> sort_column, top_n |-> top_n]
    /\ \E table \in RatioTables, legal_data \in {SourceFile, NoFile} :
           files = [f \in FilterFiles |->
                       IF f = "screening_temp_ownership" THEN table
                       ELSE IF f = "legal_data.csv" THEN legal_data
                       ELSE NoFile]
    /\ current_file = "screening_temp_ownership"
    /\ stage_log = Unused
    /\ data = Unused /\ result = Unused /\ idx = Unused
    /\ years = Unused /\ formulas = Unused
    /\ CfUnused /\ VfUnused /\ LdUnused /\ ScUnused

\* _score_and_filter_companies, `if scoring_config:` the scored file is the
\* input of the next step if score_companies returned a table
SFC_Score ==
    /\ pc = "_score_and_filter_companies"
    /\ call.scoring_config.given
    /\ LET o == score_companies_metric(files, current_file, "screening_temp_scored",
                                       call.scoring_config.v)
       IN  /\ files' = o.files
           /\ current_file' = IF o.returned.value # NoneValue
                              THEN "screening_temp_scored" ELSE current_file
    /\ pc' = "sfc_filter"
    /\ UNCHANGED <<data, result, idx, cfVars, crVars, vfVars, ldVars, scVars, stage_log>>

\* _score_and_filter_companies without scoring_config
SFC_NoScoring ==
    /\ pc = "_score_and_filter_companies"
    /\ ~call.scoring_config.given
    /\ pc' = "sfc_filter"
    /\ UNCHANGED <<data, result, idx, cfVars, crVars, vfVars, ldVars, scVars, plVars>>

\* `if financial_filters or sort_column or top_n:` the filtered file is the
\* returned input_file if filter_and_rank returned a table
SFC_Filter ==
    /\ pc = "sfc_filter"
    /\ call.financial_filters.given \/ call.sort_column # <<>> \/ call.top_n.given
    /\ LET o == filter_and_rank_filters(files, current_file, "screening_temp_filtered",
                                        call.sort_column, call.financial_filters, call.top_n)
       IN  /\ files' = o.files
           /\ current_file' = IF o.returned.value # NoneValue
                              THEN "screening_temp_filtered" ELSE current_file
    /\ pc' = "_finalize_results"
    /\ UNCHANGED <<data, result, idx, cfVars, crVars, vfVars, ldVars, scVars, stage_log>>

\* no filter, no sort column, no top_n: filter_and_rank is not called
SFC_NoFilter ==
    /\ pc = "sfc_filter"
    /\ ~(call.financial_filters.given \/ call.sort_column # <<>> \/ call.top_n.given)
    /\ pc' = "_finalize_results"
    /\ UNCHANGED <<data, result, idx, cfVars, crVars, vfVars, ldVars, scVars, plVars>>

\* _finalize_results: add_company_names, or the input file as it is if that
\* returned None; RuntimeError if the input cannot be read either
FR_Finalize ==
    /\ pc = "_finalize_results"
    /\ LET o == add_company_names_column(files, current_file, OutputFile)
       IN  /\ files' = o.files
           /\ result' = IF o.returned.value # NoneValue THEN o.returned
                        ELSE IF safe_read_csv(files, current_file) = NoneValue
                        THEN Raised("RuntimeError")
                        ELSE Returned(safe_read_csv(files, current_file))
    /\ pc' = "fr_done"
    /\ UNCHANGED <<data, idx, cfVars, crVars, vfVars, ldVars, scVars, current_file, stage_log>>

NextFilter ==
    \/ SFC_Score
    \/ SFC_NoScoring
    \/ SFC_Filter
    \/ SFC_NoFilter
    \/ FR_Finalize

SpecFilter == InitFilter /\ [][NextFilter]_vars

\* record k of the table meets the filter, if the table has its column
MeetsFilter(table, k, filter_dict) ==
    filter_dict.column \in Columns(table) =>
        /\ filter_dict.min.given => NumLe(filter_dict.min.v, table.cols[filter_dict.column][k].x)
        /\ filter_dict.max.given => NumLe(table.cols[filter_dict.column][k].x, filter_dict.max.v)

\* C27: when the file pipeline returns a table and financial_filters is
\* configured, every record of the table meets every filter whose column the
\* table has, also when filter_and_rank returned None (no company left, or
\* no sort column).
ReturnedRowsMeetFilters ==
    (pc = "fr_done" /\ ~result.raised /\ call.financial_filters.given) =>
        \A k \in 1..RowCount(result.value) :
            \A n \in 1..Len(call.financial_filters.v) :
                MeetsFilter(result.value, k, call.financial_filters.v[n])

\* the years of the call for which filter_companies yields data, in the
\* order of the call
YearsWithData ==
    LET has_data(y) == filter_companies(data, y, call.legal_forms) # NoneValue
    IN  SelectSeq(call.years, has_data)

\* the inner merge on company_code of the tables of the years with data
MergeOfYearsWithData ==
    LET year_df(y) == year_columns(filter_companies(data, y, call.legal_forms), y)
        remaining == YearsWithData
    IN  Frame(merge_years(year_df(remaining[1]), Tail(remaining),
                          [y \in {remaining[k] : k \in 1..Len(remaining)} |-> year_df(y)]))

\* C30: with require_all_years False merge_multiple_years never raises,
\* returns None exactly when no year of the list has data, and otherwise
\* returns the merge of the years that have data, whichever years are
\* skipped (the first of the list included).
SkipsYearsWithoutData ==
    (/\ \/ pc = "mmy_done"
        \/ pc = "merge_financial_data" /\ idx = 1
     /\ ~call.require_all_years) =>
        /\ ~result.raised
        /\ (result.value = NoneValue) <=> (YearsWithData = <<>>)
        /\ YearsWithData # <<>> => result.value = MergeOfYearsWithData

(***************************************************************************)
(* Specification SpecGenerate: the formulas of an accepted                 *)
(* standard_formulas configuration are generated by                        *)
(* _get_customized_standard_formulas and each is evaluated by              *)
(* create_formula on a table that has every column of every item           *)
(***************************************************************************)
LineItems == {Revenue, OperatingProfit, Depreciation, NetProfit, Equity, Assets, Headcount,
              Cash, CurrentAssets, CurrentLiabilities, LongTermLiabilities, LabourCosts}
TableYears == 2019..2024

\* revenue_cagr(start_year, end_year) computes end_year - start_year: a
\* TypeError for a year that is no number
customized_standard_formulas(standard_config) ==
    IF \E k \in 1..Len(standard_config.entries) :
           /\ standard_config.entries[k].key = "revenue_cagr"
           /\ \/ ~IsInt(DictGet(standard_config.entries[k].value, "start_year", NoneValue))
              \/ ~IsInt(DictGet(standard_config.entries[k].value, "end_year", NoneValue))
    THEN Raised("TypeError")
    ELSE Returned(get_customized_standard_formulas(standard_config))

PerYearTypes == {"ebitda_margin", "roe", "roa", "asset_turnover", "employee_efficiency",
                 "cash_ratio", "current_ratio", "debt_to_equity", "labour_ratio"}

GenerateYears == {2021, 2022, 2023}

\* configurations of one formula type: the per-year families with and
\* without averages, revenue_growth with a pair, revenue_cagr with its years
\* equal, apart, in either order, or None
GenerateConfigs ==
    {PyDict(<<Entry(type, YearsOf(ys))>>) :
         type \in PerYearTypes, ys \in {<<>>, <<PyInt(2023)>>, <<PyInt(2023), PyInt(2022)>>}}
    \cup {PyDict(<<Entry(type, PyDict(<<Entry("years", PyList(<<PyInt(2023)>>)),
                                       Entry("use_averages", PyBool(FALSE))>>))>>) :
              type \in AveragingFamilies}
    \cup {PyDict(<<Entry("revenue_growth", PyDict(<<Entry("year_pairs", PyList(pairs))>>))>>) :
              pairs \in {<<>>} \cup {<<PyList(<<PyInt(from_year), PyInt(to_year)>>)>> :
                                        from_year, to_year \in GenerateYears}}
    \cup {PyDict(<<Entry("revenue_cagr", PyDict(<<Entry("start_year", start_year),
                                                 Entry("end_year", end_year)>>))>>) :
              start_year, end_year \in {PyInt(y) : y \in GenerateYears} \cup {NoneValue}}

GenerateCells == {NumCell(Int2Num(0)), NumCell(Int2Num(1)), NumCell(Int2Num(4)), NoneCell}

\* one record with every item's column of every year: the revenue of 2023
\* and of 2022 and the value of all other columns are chosen
GenerateTable(r23, r22, other) ==
    Table(1, [c \in {ItemYear(item, y) : item \in LineItems, y \in TableYears} |->
                 IF c = ItemYear(Revenue, 2023) THEN <<r23>>
                 ELSE IF c = ItemYear(Revenue, 2022) THEN <<r22>>
                 ELSE <<other>>])

InitGenerate ==
    /\ pc = "_get_customized_standard_formulas"
    /\ \E standard_formulas \in GenerateConfigs :
           /\ validate_config(Config([years |-> PyList(<<PyInt(2023), PyInt(2022)>>),
                                      standard_formulas |-> standard_formulas])) = Passed
           /\ call = [standard_formulas |-> standard_formulas]
    /\ \E r23 \in GenerateCells, r22 \in GenerateCells, other \in GenerateCells :
           data = GenerateTable(r23, r22, other)
    /\ formulas = Unused /\ years = Unused
    /\ result = Unused /\ idx = Unused
    /\ CfUnused /\ VfUnused /\ LdUnused /\ ScUnused /\ PlUnused

\* _get_customized_standard_formulas returns the dictionary
GSF_Generated ==
    /\ pc = "_get_customized_standard_formulas"
    /\ ~customized_standard_formulas(call.standard_formulas).raised
    /\ formulas' = customized_standard_formulas(call.standard_formulas).value
    /\ idx' = 1
    /\ pc' = "create_formula"
    /\ UNCHANGED <<data, result, cfVars, call, years, vfVars, ldVars, scVars, plVars>>

\* _get_customized_standard_formulas raises
GSF_Raised ==
    /\ pc = "_get_customized_standard_formulas"
    /\ customized_standard_formulas(call.standard_formulas).raised
    /\ result' = customized_standard_formulas(call.standard_formulas)
    /\ pc' = "gsf_done"
    /\ UNCHANGED <<data, idx, cfVars, crVars, vfVars, ldVars, scVars, plVars>>

\* create_formula returns the value of the next formula
GSF_Evaluated ==
    /\ pc = "create_formula" /\ idx <= Len(formulas)
    /\ ~create_formula(formulas[idx].expr, data).raised
    /\ result' = create_formula(formulas[idx].expr, data)
    /\ idx' = idx + 1
    /\ UNCHANGED <<pc, data, cfVars, crVars, vfVars, ldVars, scVars, plVars>>

\* create_formula raises on the next formula
GSF_EvaluationRaised ==
    /\ pc = "create_formula" /\ idx <= Len(formulas)
    /\ create_formula(formulas[idx].expr, data).raised
    /\ result' = create_formula(formulas[idx].expr, data)
    /\ pc' = "gsf_done"
    /\ UNCHANGED <<data, idx, cfVars, crVars, vfVars, ldVars, scVars, plVars>>

\* every formula has been evaluated
GSF_Done ==
    /\ pc = "create_formula" /\ idx > Len(formulas)
    /\ pc' = "gsf_done"
    /\ UNCHANGED <<data, result, idx, cfVars, crVars, vfVars, ldVars, scVars, plVars>>

NextGenerate ==
    \/ GSF_Generated
    \/ GSF_Raised
    \/ GSF_Evaluated
    \/ GSF_EvaluationRaised
    \/ GSF_Done

SpecGenerate == InitGenerate /\ [][NextGenerate]_vars

\* C29: for an accepted configuration neither the generation of the
\* standard formulas nor the evaluation of a generated formula on a table
\* with all its columns raises, whatever the years, the year pairs and the
\* start and end year of revenue_cagr are (equal and None included).
GeneratedFormulasEvaluate ==
    (pc \in {"create_formula", "gsf_done"} /\ result # Unused) => ~result.raised

====
